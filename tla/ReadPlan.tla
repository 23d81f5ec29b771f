---- MODULE ReadPlan ----
(*************************************************************************)
(* Watched values as few reads of memory, studio-core/src/plan.rs: the   *)
(* plan for a list of items, and what one read of each region makes of   *)
(* the items.  An item has an id, an address, a type (a kind and a width *)
(* in bytes), and for a bit field its first bit and number of bits.      *)
(*************************************************************************)
EXTENDS Integers, Sequences, Folds

CONSTANTS Gap, MaxLen    \* DEFAULT_GAP, DEFAULT_MAX_LEN

ASSUME ReadPlanAssumption == Gap \in Nat /\ MaxLen \in Nat

NaN == -(2 ^ 30)
NoBits == -1
Nowhere == [region |-> 0, offset |-> 0, len |-> 0]

\* A raw item is not read; a field without bits is read as its type.
IsReadItem(item) == item.kind # "raw" \/ item.bits > 0
Start(item) == item.address + (IF item.bits > 0 THEN item.bit \div 8 ELSE 0)
Length(item) == IF item.bits > 0 THEN ((item.bit % 8) + item.bits + 7) \div 8 ELSE item.width

\* Whether the item joins the region being built.
Merges(region, item) ==
  LET end == region.address + region.len
      last == Start(item) + Length(item)
  IN /\ Start(item) <= end + Gap
     /\ (IF last > end THEN last ELSE end) - region.address <= MaxLen

Widened(region, item) ==
  LET last == Start(item) + Length(item) - region.address
  IN [region EXCEPT !.len = IF last > @ THEN last ELSE @]

Placed(acc, items, i) ==
  LET n == Len(acc.regions)
      merge == n > 0 /\ Merges(acc.regions[n], items[i])
      regions == IF merge THEN [acc.regions EXCEPT ![n] = Widened(@, items[i])]
                 ELSE Append(acc.regions, [address |-> Start(items[i]), len |-> Length(items[i])])
  IN [regions |-> regions,
      slots |-> [acc.slots EXCEPT ![i] = [region |-> Len(regions),
                                          offset |-> Start(items[i]) - regions[Len(regions)].address,
                                          len |-> Length(items[i])]]]

\* The order of a stable sort by start and length.
Before(items, i, j) ==
  \/ Start(items[i]) < Start(items[j])
  \/ Start(items[i]) = Start(items[j]) /\ Length(items[i]) < Length(items[j])
  \/ Start(items[i]) = Start(items[j]) /\ Length(items[i]) = Length(items[j]) /\ i < j

Latest(items, S) == CHOOSE i \in S : \A j \in S \ {i} : Before(items, j, i)

Unread(items) == [regions |-> <<>>, slots |-> [i \in DOMAIN items |-> Nowhere]]

\* All items that are read are placed in this order.
Plan(items) ==
  LET acc == MapThenFoldSet(LAMBDA i, a : Placed(a, items, i), Unread(items),
                            LAMBDA i : i, LAMBDA S : Latest(items, S),
                            {i \in DOMAIN items : IsReadItem(items[i])})
  IN [items |-> items, regions |-> acc.regions, slots |-> acc.slots]

Unplanned == [items |-> <<>>, regions |-> <<>>, slots |-> <<>>]

-----------------------------------------------------------------------------

\* Little-endian.
Number(bytes) ==
  LET from[k \in 0 .. Len(bytes)] == IF k = Len(bytes) THEN 0 ELSE bytes[k + 1] + 256 * from[k + 1]
  IN from[0]
TwosComplement(n, bits) == IF n >= 2 ^ (bits - 1) THEN n - 2 ^ bits ELSE n

\* Fields of more than 64 bits, and of none, are no numbers; floats are
\* taken as the number their bytes are.
Decode(item, bytes) ==
  LET raw == Number(bytes)
      field == (raw \div 2 ^ (item.bit % 8)) % 2 ^ item.bits
  IN CASE item.bits # NoBits /\ item.bits \notin 1 .. 64 -> NaN
       [] item.bits \in 1 .. 63 /\ item.kind = "signed" -> TwosComplement(field, item.bits)
       [] item.bits \in 1 .. 63 /\ item.kind # "signed" -> field
       [] item.bits = 64 -> field    \* even if signed
       [] item.bits = NoBits /\ item.kind = "signed" -> TwosComplement(raw, 8 * item.width)
       [] item.bits = NoBits /\ item.kind = "bool" -> IF raw = 0 THEN 0 ELSE 1
       [] OTHER -> raw

\* The values one read of every region gives; NaN for those of a region that
\* could not be read.  Memory is a function of the address; a read of a byte
\* in `fails` fails.
Sampled(plan, memory(_), fails) ==
  [i \in DOMAIN plan.items |->
    LET s == plan.slots[i]
        r == plan.regions[s.region]
        span == r.address .. r.address + r.len - 1
        bytes == [k \in 1 .. s.len |-> memory(r.address + s.offset + k - 1)]
    IN IF s = Nowhere \/ span \cap fails # {} THEN NaN ELSE Decode(plan.items[i], bytes)]
====
