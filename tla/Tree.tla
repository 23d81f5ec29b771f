---- MODULE Tree ----
(*************************************************************************)
(* What a user browses, studio-dwarf/src/tree.rs: the variables of an    *)
(* open file and, below each, its members, elements and variants.  A     *)
(* node is handed out as a reference, a variable's path and the steps    *)
(* from it, and found again by walking them.  Wrappers, types that hold  *)
(* one value and nothing else, are shown as that value; a pool of tasks  *)
(* is untyped bytes, shown as slots of the task's storage.               *)
(*************************************************************************)
EXTENDS Elf

CONSTANTS
  MaxWrappers,   \* MAX_WRAPPERS
  Limit          \* DEFAULT_CHILD_LIMIT

Member(name) == <<"member", name>>
Variant(name) == <<"variant", name>>
Index(i) == <<"index", i>>
Discriminant == <<"discriminant">>
TaskSlot(i) == <<"task", i>>

Node(symbol, steps, address, type, bits) ==
  [symbol |-> symbol, steps |-> steps, address |-> address, type |-> type, bits |-> bits]
Unresolved == [symbol |-> <<>>]

-----------------------------------------------------------------------------
(* Wrappers. *)

Empty(m) == TypeSize(table, m.type) = 0
FillsAll(m, size) == TypeSize(table, m.type) = size /\ m.offset = 0 /\ m.bits = 0

\* The only member that is not empty, if it fills the whole type.
Held(def) ==
  LET full == SelectSeq(def.members, LAMBDA m : ~Empty(m))
  IN IF /\ def.kind \in Aggregates
        /\ ~def.tagged /\ def.bases = <<>>
        /\ Len(full) = 1 /\ FillsAll(full[1], def.size)
     THEN full[1].type ELSE Invalid
HeldMember(type) == Held(UnderlyingDef(table, type))

RECURSIVE ChainFrom(_, _)
ChainFrom(chain, held) ==
  IF Len(chain) > MaxWrappers \/ held = Invalid THEN chain
  ELSE ChainFrom(Append(chain, held), HeldMember(held))
WrapperChain(type) == ChainFrom(<<type>>, HeldMember(type))
Peel(type) == Last(WrapperChain(type))

-----------------------------------------------------------------------------
(* Walking. *)

ElementSize(type) == IF TypeSize(table, type) = NoSize THEN 0 ELSE TypeSize(table, type)

Through(at, step, m) == Node(at.symbol, Append(at.steps, step), at.address + m.offset, m.type, m.bits)

\* A step from a value, taken as of this type.
EnterDef(def, at, step) ==
  LET hits == CASE step[1] = "member" /\ def.kind \in Aggregates ->
                     SelectSeq(def.members, LAMBDA m : m.name = step[2])
                [] step[1] = "variant" /\ def.kind = "struct" /\ def.tagged ->
                     LET v == SelectSeq(def.variants, LAMBDA w : w.member.name = step[2])
                     IN [i \in DOMAIN v |-> v[i].member]
                [] step[1] = "discriminant" /\ def.kind = "struct" /\ def.tagged ->
                     IF def.discr = NoMember THEN <<>> ELSE <<def.discr>>
                [] OTHER -> <<>>
  IN IF step[1] = "index" /\ def.kind = "array" /\ (def.count = NoCount \/ step[2] < def.count)
     THEN Node(at.symbol, Append(at.steps, step), at.address + step[2] * ElementSize(def.to), def.to, 0)
     ELSE IF hits = <<>> THEN Unresolved ELSE Through(at, step, hits[1])
Enter(type, at, step) == EnterDef(UnderlyingDef(table, type), at, step)

\* A pool is named for its task, and so is the type of the task's storage.
Join(path) == FoldLeft(LAMBDA text, segment : text \o "::" \o segment, path[1], Tail(path))
StorageNames(pool) ==
  LET task == Join(Front(pool)) IN <<"TaskStorage<" \o task \o ">", "raw::TaskStorage<" \o task \o ">">>

\* Of the types of that name the first whose size divides the pool.
StorageOf(pool, size) ==
  LET ids == FindByName(table, StorageNames(pool)[1]) \o FindByName(table, StorageNames(pool)[2])
      divides(n) == n > 0 /\ size % n = 0
      fit == SelectSeq(ids, LAMBDA id : Def(table, id).kind = "struct" /\ divides(Def(table, id).size))
  IN IF Len(pool) < 2 \/ Last(pool) # "POOL" \/ fit = <<>> THEN <<>>
     ELSE LET n == Def(table, fit[1]).size IN <<[type |-> fit[1], size |-> n, slots |-> size \div n]>>

EnterSlot(at, step, pool, storage) ==
  IF \/ at.steps # <<>> \/ storage = <<>>
     \/ storage # <<>> /\ step[2] >= storage[1].slots
  THEN Unresolved
  ELSE Node(at.symbol, <<step>>, pool.address + step[2] * storage[1].size, storage[1].type, 0)
EnterPool(at, step, pool) == EnterSlot(at, step, pool, StorageOf(pool.path, pool.size))
EnterTask(at, step) == EnterPool(at, step, FindSymbol(at.symbol)[1])

\* A mutant that takes the wrapper for the value in it.
StepFrom_Outer(at, step) ==
  IF step[1] = "task" THEN EnterTask(at, step) ELSE Enter(at.type, at, step)

\* From the innermost type of a wrapper outwards.
EnterChain(chain, at, step) ==
  LET order == Reverse(chain)
      tried == [i \in DOMAIN order |-> Enter(order[i], at, step)]
      hits == SelectSeq(tried, LAMBDA node : node # Unresolved)
  IN IF hits = <<>> THEN Unresolved ELSE hits[1]
StepFrom(at, step) ==
  IF step[1] = "task" THEN EnterTask(at, step) ELSE EnterChain(WrapperChain(at.type), at, step)

Root(e) == Node(e.path, <<>>, e.address, e.type, 0)

ResolveNode(ref) ==
  LET found == FindSymbol(ref.symbol)
  IN IF found = <<>> \/ found[1].type = Invalid THEN Unresolved
     ELSE FoldLeft(LAMBDA at, step : IF at = Unresolved THEN at ELSE StepFrom(at, step),
                   [Root(found[1]) EXCEPT !.symbol = ref.symbol], ref.steps)

-----------------------------------------------------------------------------
(* What is listed. *)

Roots == {Root(e) : e \in {f \in Range(Variables) : f.type # Invalid}}

ChildrenOf(at, def) ==
  LET shown == IF def.count <= Limit THEN def.count ELSE Limit
      variants == [i \in DOMAIN def.variants |->
                     Through(at, Variant(def.variants[i].member.name), def.variants[i].member)]
      tag == IF def.discr = NoMember THEN <<>> ELSE <<Through(at, Discriminant, def.discr)>>
  IN CASE def.kind \in Aggregates /\ def.tagged -> tag \o variants
       [] def.kind \in Aggregates /\ ~def.tagged ->
            [i \in DOMAIN def.members |-> Through(at, Member(def.members[i].name), def.members[i])]
       [] def.kind = "array" /\ def.count # NoCount ->
            [i \in 1 .. shown |->
               Node(at.symbol, Append(at.steps, Index(i - 1)),
                    at.address + (i - 1) * ElementSize(def.to), def.to, 0)]
       [] OTHER -> <<>>
ChildrenAt(at) ==
  IF at = Unresolved THEN <<>> ELSE ChildrenOf(at, UnderlyingDef(table, Peel(at.type)))
Children(node) == ChildrenAt(ResolveNode(node))

\* How many children a node says it has, and whether it is a number to plot.
CountOf(def) ==
  CASE def.kind \in Aggregates /\ def.tagged ->
         Len(def.variants) + (IF def.discr = NoMember THEN 0 ELSE 1)
    [] def.kind \in Aggregates /\ ~def.tagged -> Len(def.members)
    [] def.kind = "array" -> IF def.count = NoCount THEN 0 ELSE def.count
    [] OTHER -> 0
ChildCount(node) == CountOf(UnderlyingDef(table, Peel(node.type)))

ScalarOf(type) ==
  IF UnderlyingDef(table, type).kind \in Pointers \cup {"primitive", "enum"}
  THEN VariableType(table, Underlying(table, type)) ELSE <<"none", 0>>
Scalar(node) == ScalarOf(Peel(node.type))
====
