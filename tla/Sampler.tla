---- MODULE Sampler ----
(*************************************************************************)
(* Sampling at a rate, the part of a probe session's loop in             *)
(* studio-core/src/session.rs that schedule.rs (Ticker), plan.rs,        *)
(* stats.rs (LinkStats) and frame.rs (FrameBuilder) do: at each tick one *)
(* read of the plan makes a row, and rows are sent in batches.  Time is  *)
(* counted in small units; ticks that come late are skipped.             *)
(*************************************************************************)
EXTENDS ReadPlan, FiniteSets

CONSTANTS
  Watches,     \* the lists of items a user may watch
  Periods,     \* the periods of the rates a user may set
  TickWrap,    \* numbers of ticks that the deadline tells apart: 2^32
  Window,      \* WINDOW: ticks the rate is measured over
  MaxNow,      \* bound: how long it runs
  MaxTicks,    \* bound: how many ticks are served
  Byte(_, _),  \* the byte at an address and a time (external)
  Failures     \* the sets of addresses that may be unreadable (external)

Span(item) == Start(item) .. Start(item) + Length(item) - 1

\* What may be watched; a byte is below 256.
Kinds == {"unsigned", "signed", "float", "bool", "raw"}
ItemTypes == [id : Nat, address : Nat, kind : Kinds, width : Nat \ {0}, bit : Nat, bits : Nat \cup {NoBits}]

ASSUME SamplerAssumption ==
  /\ Watches \subseteq Seq(ItemTypes)
  /\ \A items \in Watches : \A c \in DOMAIN items, t \in 0 .. MaxNow :
       \A a \in Span(items[c]) : Byte(a, t) \in 0 .. 255
  /\ Periods \subseteq Nat \ {0}
  /\ TickWrap \in Nat \ {0} /\ Window \in Nat \ {0}
  /\ MaxNow \in Nat /\ MaxTicks \in Nat

VARIABLES
  clock,     \* Instant::now()
  plan,
  sampler,   \* start, period and next of the ticker; <<>> when nothing is watched
  period,    \* of the rate set
  skipped,   \* of the ticker, and of those before it
  stats,     \* LinkStats: ticks served, and the times of those in the window
  frame,     \* the times and rows collected for the items watched, and for each
             \* row the addresses that could not be read (history)
  batch,     \* the batch sent last
  due        \* ticks that earlier tickers owed, and that the deadline has
             \* told all ticks' numbers apart (history)

samplerVars == <<clock, plan, sampler, period, skipped, stats, frame, batch, due>>

NoBatch == [ids |-> <<>>, times |-> <<>>, columns |-> <<>>, fails |-> <<>>]
NoRows == [times |-> <<>>, rows |-> <<>>, fails |-> <<>>]
Ids(items) == [i \in DOMAIN items |-> items[i].id]

-----------------------------------------------------------------------------
(* The ticker. *)

\* The deadline of the next tick, made from the low bits of its number.
Deadline(t) == t.start + t.period * (t.next % TickWrap)

IsDue(t) == clock >= Deadline(t)
DueTick(t) == (clock - t.start) \div t.period
Missed(t) == IF DueTick(t) > t.next THEN DueTick(t) - t.next ELSE 0

\* A mutant that counts ticks and not time.
Ticked_ByOne(t) == [t EXCEPT !.next = @ + 1]

Ticked(t) == [t EXCEPT !.next = DueTick(t) + 1]

-----------------------------------------------------------------------------

\* flush_frame: rows become columns.
Batch ==
  [ids |-> Ids(plan.items), times |-> frame.times, fails |-> frame.fails,
   columns |-> [c \in DOMAIN plan.items |-> [r \in DOMAIN frame.times |-> frame.rows[r][c]]]]

\* What has been collected is sent before the items change.
Flushed ==
  /\ batch' = IF frame.times = <<>> THEN batch ELSE Batch
  /\ frame' = NoRows

\* restart_sampler, for a plan and a period.
Restarted(p, every) ==
  /\ sampler' = IF p.items = <<>> THEN <<>> ELSE <<[start |-> clock, period |-> every, next |-> 0]>>
  /\ skipped' = [ticker |-> 0, before |-> skipped.before + skipped.ticker]
  /\ stats' = [stats EXCEPT !.at = <<>>]
  /\ due' = [due EXCEPT !.ticks = @ + (IF sampler = <<>> THEN 0 ELSE sampler[1].next)]

\* A mutant that leaves the rows collected to the new items.
SetWatches_KeepRows(items) ==
  LET p == Plan(items)
  IN /\ plan' = p
     /\ Restarted(p, period)
     /\ UNCHANGED <<clock, period, frame, batch>>

SetWatches(items) ==
  LET p == Plan(items)
  IN /\ Flushed
     /\ plan' = p
     /\ Restarted(p, period)
     /\ UNCHANGED <<clock, period>>

SetRate(every) ==
  /\ period' = every
  /\ Restarted(plan, every)
  /\ UNCHANGED <<clock, plan, frame, batch>>

Watch == \E items \in Watches : SetWatches(items)
Rate == \E every \in Periods : SetRate(every)

Within(queue) == IF Len(queue) > Window THEN Tail(queue) ELSE queue

\* A tick, if it is due: a row is read.  Some addresses may be unreadable.
Tick ==
  \E fails \in Failures :
    LET t == sampler[1] IN
    /\ stats.ticks < MaxTicks
    /\ sampler # <<>> /\ IsDue(t)
    /\ sampler' = <<Ticked(t)>>
    /\ skipped' = [skipped EXCEPT !.ticker = @ + Missed(t)]
    /\ frame' = [times |-> Append(frame.times, clock), fails |-> Append(frame.fails, fails),
                 rows |-> Append(frame.rows, Sampled(plan, LAMBDA a : Byte(a, clock), fails))]
    /\ stats' = [ticks |-> stats.ticks + 1, at |-> Within(Append(stats.at, clock))]
    /\ due' = [due EXCEPT !.fit = @ /\ Ticked(t).next < TickWrap]
    /\ UNCHANGED <<clock, plan, period, batch>>

FrameTick ==
  /\ frame.times # <<>> /\ Flushed
  /\ UNCHANGED <<clock, plan, sampler, period, skipped, stats, due>>

\* The loop sleeps, or a read or a command takes its time.
Pass ==
  /\ clock < MaxNow
  /\ clock' = clock + 1
  /\ UNCHANGED <<plan, sampler, period, skipped, stats, frame, batch, due>>

\* achieved_hz: so many periods in so much time, none if no time has passed.
Measured ==
  LET n == Len(stats.at)
      none == n < 2 \/ stats.at[n] = stats.at[1]
  IN [periods |-> IF none THEN 0 ELSE n - 1, time |-> IF none THEN 0 ELSE stats.at[n] - stats.at[1]]

SamplerInit(every) ==
  /\ clock = 0 /\ plan = Unplanned /\ sampler = <<>> /\ period = every
  /\ skipped = [ticker |-> 0, before |-> 0]
  /\ stats = [ticks |-> 0, at |-> <<>>]
  /\ frame = NoRows /\ batch = NoBatch
  /\ due = [ticks |-> 0, fit |-> TRUE]

SamplerNext == Watch \/ Rate \/ Tick \/ FrameTick \/ Pass

SamplerSpec == (\E every \in Periods : SamplerInit(every)) /\ [][SamplerNext]_samplerVars

-----------------------------------------------------------------------------

\* The bits of memory an item names, and what they say at one time.  A signed
\* field of 64 bits is taken as unsigned.
FirstBit(item) == 8 * item.address + (IF item.bits = NoBits THEN 0 ELSE item.bit)
BitCount(item) == IF item.bits = NoBits THEN 8 * item.width ELSE item.bits

BitsAt(first, n, time) ==
  LET bit(k) == (Byte((first + k) \div 8, time) \div 2 ^ ((first + k) % 8)) % 2
      sum[k \in 0 .. n] == IF k = n THEN 0 ELSE bit(k) + 2 * sum[k + 1]
  IN sum[0]

ValueAt(item, time) ==
  LET n == BitCount(item)
      sum == BitsAt(FirstBit(item), n, time)
  IN CASE item.kind = "signed" /\ item.bits # 64 -> TwosComplement(sum, n)
       [] item.kind = "bool" /\ item.bits = NoBits -> IF sum = 0 THEN 0 ELSE 1
       [] OTHER -> sum

IsNumber(item) == IF item.bits = NoBits THEN item.kind # "raw" ELSE item.bits \in 1 .. 64

\* The addresses so near an item that one read covers both.
Near(item) == Span(item) \cup (Start(item) + Length(item) - MaxLen .. Start(item) + MaxLen - 1)

Right(item, time, fails, got) ==
  \/ IsNumber(item) /\ got = ValueAt(item, time)
  \/ got = NaN /\ (~IsNumber(item) \/ fails \cap Near(item) # {})

\* A batch is of one list of items, and each of its columns holds, for each of
\* its times, the value the column's item had in memory at that time, or no
\* number: when an address so near that one read covers both was unreadable at
\* that time, or when the item is no number.  Neither a change of what is watched
\* nor a failed read ever puts a value under another id or at another time
\* (ReadPlan::with_limits, sample, decode; set_watches, FrameBuilder).
BatchTrue ==
  batch.times # <<>> =>
    \E items \in Watches :
      /\ batch.ids = Ids(items)
      /\ \A c \in DOMAIN items, r \in DOMAIN batch.times :
           Right(items[c], batch.times[r], batch.fails[r], batch.columns[c][r])

\* However late the loop comes round and whatever restarts the ticker: the ticker's
\* number is that of the deadlines passed by the last read, and no tick up to it is
\* lost: each is read or counted as skipped.  As long as the deadline tells the ticks'
\* numbers apart, none is both or read twice, the next deadline lies after the
\* last read, and reads are never bunched up: between any two of the window lies a
\* deadline, so the rate reported exceeds the one set by less than one
\* period over the window, which a late first read of it explains.  (Ticks that came
\* due after the last read and before a restart are nobody's: Ticker::poll,
\* restart_sampler, achieved_hz.)
TicksKept ==
  sampler # <<>> =>
    LET t == sampler[1]
        n == Len(stats.at)
        deadline(k) == t.start + t.period * k
        told == stats.ticks + skipped.before + skipped.ticker
    IN /\ t.next > 0 => n > 0 /\ deadline(t.next - 1) <= stats.at[n] /\ stats.at[n] < deadline(t.next)
       /\ told >= due.ticks + t.next
       /\ due.fit =>
            /\ told = due.ticks + t.next
            /\ n > 0 => stats.at[n] < Deadline(t)
            /\ \A i \in 1 .. n - 1 : \E k \in 1 .. t.next - 1 :
                 stats.at[i] < deadline(k) /\ deadline(k) <= stats.at[i + 1]
            /\ Measured.periods > 0 => (Measured.periods - 1) * t.period < Measured.time
====
