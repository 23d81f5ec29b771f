---- MODULE MCSymbols ----
(*************************************************************************)
(* Small programs for Tasks and Catalog: the entries of a few            *)
(* declarations, in every order and cut into two units at every place,   *)
(* so that a reference may meet its target before or after it, in the    *)
(* same unit or in the other.  A program is written with a label for     *)
(* each entry; laying it out makes the labels offsets.                   *)
(*************************************************************************)
EXTENDS Tasks, Catalog

NoLoc == [form |-> "none"]
Piece(at, address) == [at |-> at, address |-> address]
Expr(asks, pieces) == [asks |-> asks, pieces |-> pieces]
AtAddress(a) == [form |-> "addr", value |-> a]
ByExpr(asks, pieces) == [form |-> "expr", expr |-> Expr(asks, pieces)]

Entry0(tag, name) ==
  [tag |-> tag, unit |-> 0, off |-> 0, name |-> name, linkage |-> <<>>, size |-> Absent, enc |-> "",
   named |-> "", ty |-> "", spec |-> "", origin |-> "", decl |-> FALSE, external |-> FALSE,
   artificial |-> FALSE, const |-> FALSE, loc |-> NoLoc, kids |-> <<>>]
Int32 == [Entry0("base", "int") EXCEPT !.size = 4, !.enc = "signed"]
Byte == [Entry0("base", "u8") EXCEPT !.size = 1, !.enc = "unsigned"]
About(tag, name, of) == [Entry0(tag, name) EXCEPT !.ty = of]
Struct(name, size, kids) == [Entry0("struct", name) EXCEPT !.size = size, !.kids = kids]
Var(name, type, loc) == [Entry0("variable", name) EXCEPT !.ty = type, !.loc = loc, !.external = TRUE]

Kid(tag, name, off, offset, type) ==
  [tag |-> tag, name |-> name, off |-> off, at |-> [form |-> "data", value |-> offset], ty |-> type,
   bits |-> 0, value |-> off, count |-> Absent, upper |-> Absent, discr |-> Absent, kids |-> <<>>]
Has(name, offset, type) == Kid("member", name, 0, offset, type)
Base(offset, type) == Kid("inheritance", "", 0, offset, type)
Case(name, value, type) == Kid("variant", name, value, 0, type)
Bound(n) == [Kid("subrange", "", 0, 0, "") EXCEPT !.upper = n - 1]
Parts(kids) == [Kid("variant_part", "", 0, 0, "") EXCEPT !.discr = 7, !.kids = kids]

-----------------------------------------------------------------------------
(* The programs. *)

\* A variable declared in one place and defined in another; one inlined.
Declared ==
  [int |-> Int32,
   decl |-> [Var(<<"m", "a">>, "int", NoLoc) EXCEPT !.decl = TRUE, !.linkage = <<"_Z", "m", "a">>],
   def |-> [Var(<<>>, "", AtAddress(4)) EXCEPT !.spec = "decl"],
   abstract |-> Var(<<"b">>, "int", NoLoc),
   concrete |-> [Var(<<>>, "", ByExpr(<<"index">>, <<Piece("address", 8)>>)) EXCEPT !.origin = "abstract"]]

Derived ==
  [int |-> Int32,
   A |-> Struct("A", 4, <<Has("x", 0, "int")>>),
   B |-> Struct("B", 12, <<Base(4, "A"), Has("y", 8, "int")>>),
   C |-> Struct("C", 20, <<Base(4, "B"), Has("z", 16, "int")>>),
   c |-> Var(<<"c">>, "C", AtAddress(40))]

\* Bases without bases of their own, one of them shared, and used by itself.
Joined ==
  [int |-> Int32,
   P |-> Struct("P", 4, <<Has("p", 0, "int")>>),
   Q |-> Struct("Q", 4, <<Has("q", 0, "int")>>),
   D |-> Struct("D", 12, <<Base(0, "P"), Base(4, "Q"), Has("d", 8, "int")>>),
   E |-> Struct("E", 8, <<Base(4, "P"), Has("e", 0, "int")>>),
   one |-> Var(<<"one">>, "P", AtAddress(4))]

\* S is declared here and defined twice elsewhere, once without its last field.
Elsewhere ==
  [int |-> Int32,
   less |-> Struct("S", 4, <<Has("x", 0, "int")>>),
   more |-> Struct("S", 8, <<Has("x", 0, "int"), Has("y", 4, "int")>>),
   fwd |-> [Struct("S", Absent, <<>>) EXCEPT !.decl = TRUE],
   s |-> Var(<<"s">>, "fwd", AtAddress(40))]

\* struct T { w: Alias, a: [Wrapper<int>; 3], e: E, p: *T, k: const u8, m: Mode, n: Mode,
\*            u: union, f: fn pointer, v: *void }, inside a box
Nested ==
  [int |-> Int32, u8 |-> Byte,
   W |-> Struct("W", 4, <<Has("v", 0, "int"), Has("marker", 0, "unit")>>),
   alias |-> About("typedef", "Alias", "W"),
   unit |-> Struct("unit", 0, <<>>),
   arr |-> [About("array", "", "W") EXCEPT !.kids = <<Bound(3)>>],
   some |-> Struct("Some", 4, <<Has("v", 1, "u8")>>),
   E |-> Struct("E", 4, <<Parts(<<Kid("member", "tag", 7, 0, "u8"), Case("None", 0, "unit"),
                                  Case("Some", 1, "some")>>)>>),
   ptr |-> About("pointer", "", "T"),
   k |-> About("const", "", "u8"),
   mode |-> [Entry0("enum", "Mode") EXCEPT !.size = 1, !.kids = <<Kid("enumerator", "On", 0, 0, "")>>],
   modeDecl |-> [Entry0("enum", "Mode") EXCEPT !.decl = TRUE],
   U |-> [Struct("U", 4, <<Has("i", 0, "int"), Has("w", 0, "W")>>) EXCEPT !.tag = "union"],
   fn |-> About("subroutine", "", "int"),
   fnPtr |-> About("pointer", "", "fn"),
   void |-> Entry0("unspecified", "void"),
   voidPtr |-> About("pointer", "", ""),
   T |-> Struct("T", 44, <<Has("w", 0, "alias"), Has("a", 4, "arr"), Has("e", 16, "E"),
                           Has("p", 20, "ptr"), Has("k", 24, "k"), Has("m", 25, "mode"),
                           Has("n", 26, "modeDecl"), Has("u", 28, "U"), Has("f", 32, "fnPtr"),
                           [Has("v", 36, "voidPtr") EXCEPT !.bits = 4]>>),
   box |-> Struct("Box", 44, <<Has("inner", 0, "T")>>),
   t |-> Var(<<"m", "t">>, "box", AtAddress(20))]

\* Every kind of place a variable may have, the first two of them readable.
Placed ==
  [int |-> Int32,
   one |-> Var(<<"one">>, "int", AtAddress(4)),
   list |-> Var(<<"list">>, "int", [form |-> "list", exprs |-> <<Expr(<<"register">>, <<>>),
                                                                  Expr(<<>>, <<Piece("address", 8)>>)>>]),
   local |-> Var(<<"local">>, "int", ByExpr(<<"frame_base">>, <<Piece("address", 12)>>)),
   reg |-> Var(<<"reg">>, "int", ByExpr(<<>>, <<Piece("register_only", Absent)>>)),
   gone |-> Var(<<"gone">>, "int", ByExpr(<<>>, <<>>)),
   self |-> [Var(<<"self">>, "int", AtAddress(16)) EXCEPT !.artificial = TRUE],
   const |-> [Var(<<"const">>, "int", NoLoc) EXCEPT !.const = TRUE],
   ext |-> [Var(<<"ext">>, "int", NoLoc) EXCEPT !.linkage = <<"_Z", "m", "ext">>]]

\* Two tasks of one pool, and the counters kept of tasks.
Tasking(header) ==
  [u32 |-> [Int32 EXCEPT !.name = "u32", !.enc = "unsigned"], u8 |-> Byte,
   two |-> Struct("Two", 2, <<Has("spawned", 0, "u8"), Has("run_queued", 1, "u8")>>),
   header |-> Struct("TaskHeader", 4, <<Has("pad", 0, "unit"), Has("state", 0, header)>>),
   unit |-> Struct("unit", 0, <<>>),
   env |-> Struct("env", 4, <<Parts(<<Kid("member", "tag", 7, 0, "u8"), Case("Unresumed", 0, "unit"),
                                      Case("Suspend0", 3, "unit")>>)>>),
   storage |-> Struct("TaskStorage<m::led>", 8, <<Has("raw", 0, "header"), Has("future", 4, "env")>>),
   bytes |-> [About("array", "", "u8") EXCEPT !.kids = <<Bound(16)>>],
   pool |-> Var(<<"m", "led", "POOL">>, "bytes", AtAddress(20)),
   slot |-> Struct("Slot", 24, <<Has("task", 0, "u32"), Has("polls", 4, "u32"), Has("cycles", 8, "u32"),
                                 Has("max_cycles", 12, "u32"), Has("peak", 16, "u32"), Has("last_peak", 20, "u32")>>),
   slots |-> [About("array", "", "slot") EXCEPT !.kids = <<Bound(2)>>],
   stats |-> Struct("TaskStats", 64, <<Has("magic", 0, "u32"), Has("version", 4, "u32"), Has("clock_hz", 8, "u32"),
                                       Has("untracked", 12, "u32"), Has("slots", 16, "slots")>>),
   counters |-> Var(<<"rm", "RM_TASK_STATS">>, "stats", AtAddress(128))]

\* A table of values for tuning: entries: &[&Entry].
Tuned ==
  [u32 |-> [Int32 EXCEPT !.name = "u32", !.enc = "unsigned"], u8 |-> Byte,
   chars |-> About("pointer", "", "u8"),
   str |-> Struct("&str", 8, <<Has("data_ptr", 0, "chars"), Has("length", 4, "u32")>>),
   entry |-> Struct("Entry", 48, <<Has("id", 0, "u32"), Has("kind", 4, "u8"), Has("access", 5, "u8"), Has("name", 8, "str"),
                                   Has("unit", 16, "str"), Has("default", 24, "u32"), Has("min", 28, "u32"),
                                   Has("max", 32, "u32"), Has("max_step", 36, "u32"), Has("requested", 40, "u32"),
                                   Has("applied", 44, "u32")>>),
   ref |-> About("reference", "", "entry"),
   refs |-> About("pointer", "", "ref"),
   list |-> Struct("&[&Entry]", 8, <<Has("data_ptr", 0, "refs"), Has("length", 4, "u32")>>),
   type |-> Struct("Table", 16, <<Has("magic", 0, "u32"), Has("version", 4, "u32"), Has("entries", 8, "list")>>),
   table |-> Var(<<"m", "TABLE">>, "type", AtAddress(64))]

Symbol(name, address, size) ==
  [name |-> name, address |-> address, size |-> size, kind |-> "variable", section |-> "",
   sort |-> "object", dynamic |-> FALSE]

-----------------------------------------------------------------------------
(* Layouts. *)

Place(order, label) == CHOOSE i \in DOMAIN order : order[i] = label
UnitOf(order, cut, label) == IF Place(order, label) <= cut THEN 0 ELSE 1
OffOf(order, cut, label) == Place(order, label) - cut * UnitOf(order, cut, label)
RefTo(order, cut, from, to) ==
  IF to = "" THEN NoRef
  ELSE IF UnitOf(order, cut, from) = UnitOf(order, cut, to) THEN [form |-> "unit", off |-> OffOf(order, cut, to)]
  ELSE [form |-> "section", off |-> Global(UnitOf(order, cut, to), OffOf(order, cut, to))]

LaidKid(order, cut, label, kid) ==
  LET plain(k) == [k EXCEPT !.ty = RefTo(order, cut, label, @)]
  IN [plain(kid) EXCEPT !.kids = [i \in DOMAIN @ |-> plain(@[i])]]

Laid(pool, order, cut) ==
  [i \in DOMAIN order |->
    LET l == order[i] IN
    [pool[l] EXCEPT !.unit = UnitOf(order, cut, l), !.off = OffOf(order, cut, l),
                    !.ty = RefTo(order, cut, l, @), !.spec = RefTo(order, cut, l, @),
                    !.origin = RefTo(order, cut, l, @),
                    !.kids = [k \in DOMAIN @ |-> LaidKid(order, cut, l, @[k])]]]

TypesOf(d) == {d.ty} \cup {d.kids[k].ty : k \in DOMAIN d.kids}
              \cup UNION {{d.kids[k].kids[j].ty : j \in DOMAIN d.kids[k].kids} : k \in DOMAIN d.kids}

\* No entry names a type of a later unit, which would leave it without one (Lost).
Backward(pool, order, cut) ==
  \A from \in DOMAIN pool : \A to \in TypesOf(pool[from]) \ {""} :
    UnitOf(order, cut, from) = UnitOf(order, cut, to) \/ Place(order, to) < Place(order, from)

Cuts(pool, orders) == orders \X (0 .. Cardinality(DOMAIN pool))
Layouts(pool, orders) == {Laid(pool, o[1], o[2]) : o \in Cuts(pool, orders)}
SettledLayouts(pool, orders) ==
  {Laid(pool, o[1], o[2]) : o \in {p \in Cuts(pool, orders) : Backward(pool, p[1], p[2])}}

Turned(seq) == {SubSeq(seq \o seq, k, k + Len(seq) - 1) : k \in 1 .. Len(seq)}
Some(seq) == Turned(seq) \cup Turned(Reverse(seq))
Every(pool) == SetToSeqs(DOMAIN pool)

Ram == <<[name |-> ".data", start |-> 0, size |-> 64, write |-> TRUE, loaded |-> FALSE],
         [name |-> ".rodata", start |-> 64, size |-> 192, write |-> FALSE, loaded |-> TRUE]>>

TaskOrder == <<"u32", "u8", "storage", "unit", "header", "two", "env", "bytes", "pool", "stats", "slot", "slots", "counters">>

Init ==
  \/ \E p \in Layouts(Declared, Every(Declared)), l \in {<<>>, <<Symbol(<<"_Z", "m", "a">>, 4, 0)>>} :
       ElfInit(p, l, Ram)
  \/ \E p \in Layouts(Derived, Every(Derived)) \cup Layouts(Joined, Every(Joined))
              \cup Layouts(Elsewhere, Every(Elsewhere)) : ElfInit(p, <<>>, Ram)
  \/ \E p \in
       Layouts(Nested, Some(
                              <<"int", "modeDecl", "u8", "W", "unit", "arr", "some", "E", "ptr", "k", "fn", "mode",
                                "U", "alias", "fnPtr", "voidPtr", "void", "T", "box", "t">>)) :
       ElfInit(p, <<>>, Ram)
  \/ \E p \in Layouts(Placed, Some(<<"int", "one", "list", "local", "reg", "gone", "self", "const", "ext">>)),
        l \in {<<>>, <<Symbol(<<"_Z", "m", "ext">>, 20, 4), Symbol(<<"one">>, 4, 0),
                       [Symbol(<<"$d">>, 4, 0) EXCEPT !.sort = "mapping"]>>} :
       ElfInit(p, l, Ram)
  \/ \E p \in SettledLayouts(Tasking("u8"), Some(TaskOrder)) \cup SettledLayouts(Tasking("two"), Some(TaskOrder)) :
       ElfInit(p, <<>>, Ram)
  \/ \E p \in SettledLayouts(Tuned, Some(<<"u32", "u8", "entry", "chars", "str", "ref", "type", "refs", "list", "table">>)) :
       ElfInit(p, <<>>, Ram)

vars == <<elfVars, dwarfVars>>
Spec == Init /\ [][ElfNext]_vars

-----------------------------------------------------------------------------
(* What the entries say, read without a table. *)

Meant(unit, ref) ==
  CHOOSE d \in Range(dies) :
    \/ ref.form = "unit" /\ d.unit = unit /\ d.off = ref.off
    \/ ref.form = "section" /\ Global(d.unit, d.off) = ref.off

\* An offset in the section that leads to a later unit: the type referred to has no
\* entry in the table yet, and the place made for it is not the one it gets.
Lost(unit, ref) == ref.form = "section" /\ ref.off \div UnitSize > unit

\* Of a type that is only declared, the definition that says most.
Whole(d) ==
  LET same == {e \in Range(dies) : e.tag = d.tag /\ e.name = d.name /\ ~e.decl}
  IN IF ~d.decl THEN d ELSE CHOOSE e \in same : \A f \in same : Len(f.kids) <= Len(e.kids)

RECURSIVE SizeOf(_)
SizeAt(unit, ref) == IF Lost(unit, ref) THEN NoSize ELSE SizeOf(Meant(unit, ref))
SizeOf(d) ==
  LET of == SizeAt(d.unit, d.ty) IN
  CASE d.tag \in {"typedef"} \cup Qualifiers -> of
    [] d.tag = "array" -> IF of = NoSize THEN NoSize ELSE (d.kids[1].upper + 1) * of
    [] d.tag \in Pointers -> 4
    [] OTHER -> Whole(d).size

\* The fields of a struct's own, and those of its bases, base after base, at
\* their offsets from its start.
KidsOf(d, tag) == SelectSeq(d.kids, LAMBDA k : k.tag = tag)
Own(d) ==
  LET own == KidsOf(d, "member")
  IN [i \in DOMAIN own |-> [name |-> own[i].name, offset |-> own[i].at.value, size |-> SizeAt(d.unit, own[i].ty)]]
BasesOf(d) ==
  LET known == SelectSeq(KidsOf(d, "inheritance"), LAMBDA k : ~Lost(d.unit, k.ty))
  IN [i \in DOMAIN known |-> [def |-> Whole(Meant(d.unit, known[i].ty)), at |-> known[i].at.value]]

RECURSIVE OfBases(_)
OfBases(d) ==
  LET from(b) == LET all == OfBases(b.def) \o Own(b.def) IN [i \in DOMAIN all |-> [all[i] EXCEPT !.offset = @ + b.at]]
  IN FoldLeft(LAMBDA got, b : got \o from(b), <<>>, BasesOf(d))

AddressIn(loc) ==
  CASE loc.form = "addr" -> loc.value
    [] loc.form = "expr" -> ExprAddress(loc.expr)
    [] loc.form = "list" -> ListAddress(loc.exprs)
    [] OTHER -> NoAddress

Definitions == {d \in Range(dies) : d.tag = "variable" /\ ~d.artificial /\ AddressIn(d.loc) # NoAddress}
Origin(d) == IF d.spec # NoRef THEN Meant(d.unit, d.spec)
             ELSE IF d.origin # NoRef THEN Meant(d.unit, d.origin) ELSE d
TypeMeant(d) == Meant(Origin(d).unit, Origin(d).ty)

-----------------------------------------------------------------------------

Open == stage = "open" /\ Parsed

\* A variable's type is lost only where a type had been referred to before.
LostType(d) ==
  \E e \in Range(dies) : \E ref \in {k.ty : k \in Range(e.kids)} \cup (IF e.tag = "variable" THEN {} ELSE {e.ty}) :
    Lost(e.unit, ref) /\ ref = Origin(d).ty
SizeTold(d) == IF LostType(d) THEN NoSize ELSE SizeOf(TypeMeant(d))

\* Every variable with an address of its own is listed once the file is open,
\* under its name, with the type and size its declaration gives it, and
\* nothing else has a type but what the linker placed: whichever of a
\* declaration and its definition, or of a type and its uses, comes first.
\* Only of a type that another type had referred to from an earlier unit is
\* neither known, and never taken for another's (parse_variable,
\* resolve_pending_specifications, parse_dwarf, register_global_alias).
VariablesListed ==
  Open =>
    /\ \A d \in Definitions : LET size == SizeTold(d) IN
         \E e \in Range(FindSymbol(Origin(d).name)) :
           e.address = AddressIn(d.loc) /\ e.size = (IF size = NoSize THEN 0 ELSE size)
           /\ TypeSize(table, e.type) = size /\ e.writable = (e.address < 64)
    /\ \A e \in Range(entries) : e.type # Invalid =>
         \/ \E d \in Definitions : AddressIn(d.loc) = e.address
         \/ \E l \in Range(linker) : l.address = e.address

Structs == {d \in Range(dies) : d.tag = "struct"}
OneLevel(d) ==
  \/ BasesOf(d) = <<>>
  \/ /\ \A b \in Range(BasesOf(d)) : BasesOf(b.def) = <<>>
     /\ \A e \in Structs : \A b \in Range(BasesOf(e)) : b.def # d

\* Every struct has its own fields, each once, behind those of its bases, all of
\* them and no others, at their offsets from its start; and a type only declared has those
\* of its definition.  The bases' fields come once and in order if inheritance is of one
\* level: a struct that has a base and is one gets them again whenever it is
\* reached.  A base or a field's type named from an earlier unit is not known, and
\* never taken for another (resolve_inherited_members, resolve_forward_declarations,
\* register_global_alias).
LayoutComplete ==
  Open => \A d \in {e \in Structs : \A k \in Range(e.kids) : k.tag # "variant_part"} :
    LET members == Members(table, table.keys[KeyOf(d)])
        told == [i \in DOMAIN members |-> [name |-> members[i].name, offset |-> members[i].offset,
                                           size |-> TypeSize(table, members[i].type)]]
        own == Own(Whole(d))
        inherited == SubSeq(told, 1, Len(told) - Len(own))
    IN /\ told = inherited \o own
       /\ Range(inherited) = Range(OfBases(Whole(d)))
       /\ OneLevel(Whole(d)) => inherited = OfBases(Whole(d))

IsArray(node) == UnderlyingDef(table, Peel(node.type)).kind = "array"

RECURSIVE Below(_, _)
Below(node, depth) ==
  IF depth = 0 THEN {node}
  ELSE {node} \cup UNION {Below(c, depth - 1) : c \in Range(Children(node))}

\* Every node the tree lists is found again by its reference, at the same
\* address and of the same type, lies within its parent, and lists as many
\* children as it says it has: what children hands out, resolve walks back,
\* through wrappers, elements and variants.
NodesResolve ==
  stage = "open" =>
    \A root \in Roots : \A node \in Below(root, 3) :
      /\ ResolveNode(node) = node
      /\ LET shown == Len(Children(node)) IN
           \/ shown = ChildCount(node)
           \/ shown = Limit /\ shown < ChildCount(node) /\ IsArray(node)
      /\ \A c \in Range(Children(node)) :
           /\ node.address <= c.address
           /\ c.address + TypeSize(table, c.type) <= node.address + TypeSize(table, node.type)

-----------------------------------------------------------------------------

FirstTask == 20
HasTasks == \E e \in Range(entries) : Last(e.path) = "POOL"

\* What the firmware keeps for two tasks: the header's flags, the tag of the
\* future, left over in a free slot, and a table of counters in the order the
\* tasks were spawned.
Firmware(state, order, split) ==
  LET addr(i) == FirstTask + 8 * i
      spawned(i) == IF state[i] = "free" THEN 0 ELSE 1
      queued(i) == IF state[i] \in {"fresh", "woken"} THEN 1 ELSE 0
      task(i) == (addr(i) :> IF split THEN spawned(i) ELSE spawned(i) + 2 * queued(i))
                 @@ (addr(i) + 1 :> queued(i)) @@ (addr(i) + 4 :> IF state[i] = "fresh" THEN 0 ELSE 3)
      counters(j) == (144 + 24 * j :> IF state[order[j]] = "free" THEN 0 ELSE addr(order[j]))
                     @@ (148 + 24 * j :> 10 + order[j]) @@ (160 + 24 * j :> order[j]) @@ (164 + 24 * j :> 1)
  IN (128 :> StatsMagic) @@ (132 :> StatsVersion) @@ task(0) @@ task(1) @@ counters(0) @@ counters(1)

\* Every slot of a pool is listed and found again, its state is the one the
\* firmware's memory says, a free slot's leftovers are no state, and the
\* counters reported for a task are that task's (tasks, probe, decode,
\* StatsLayout::find and StatsReading::task).
TasksTold ==
  Open /\ HasTasks =>
    LET split == \E m \in Range(Members(table, table.keys[KeyOf(CHOOSE d \in Range(dies) : d.name = "TaskHeader")])) :
                   TypeSize(table, m.type) = 2
        layout == StatsLayout[1]
        probe == [t \in TaskSlots |-> Probe(t.node)]
    IN /\ {<<t.slot, ResolveNode(t.node).address>> : t \in TaskSlots} = {<<0, FirstTask>>, <<1, FirstTask + 8>>}
       /\ \A state \in [0 .. 1 -> {"free", "fresh", "waiting", "woken"}], order \in {<<0, 1>>, <<1, 0>>}, t \in TaskSlots :
            LET memory == Firmware(state, [j \in 0 .. 1 |-> order[j + 1]], split)
                told == DecodeTask(probe[t], memory)
                counted == CountersOf(StatsReading(layout, memory), t.node)
                is == state[t.slot]
            IN /\ told = [spawned |-> is # "free", queued |-> is \in {"fresh", "woken"},
                          at |-> IF is = "free" THEN "" ELSE IF is = "fresh" THEN "Unresumed" ELSE "Suspend0"]
               /\ [k \in DOMAIN counted |-> counted[k].polls] = IF is = "free" THEN <<>> ELSE <<10 + t.slot>>

-----------------------------------------------------------------------------

Entries ==
  {[id |-> i, kind |-> k, access |-> a, text |-> n, min |-> 0, max |-> m] :
     i \in {1, 2}, k \in {1, 2, 3, 4}, a \in {0, 1}, n \in {1, MaxText + 1}, m \in {4, NotFinite}}

Cells(at, e) ==
  (at :> e.id) @@ (at + 4 :> e.kind) @@ (at + 5 :> e.access) @@ (at + 8 :> 200) @@ (at + 12 :> e.text)
  @@ (at + 16 :> 204) @@ (at + 20 :> 0) @@ (at + 24 :> Word - 1) @@ (at + 28 :> e.min) @@ (at + 32 :> e.max)
  @@ (at + 36 :> 2) @@ (at + 40 :> 1) @@ (at + 44 :> 1)

TableCells(magic, count, first, second) ==
  (64 :> magic) @@ (68 :> TableVersion) @@ (72 :> 80) @@ (76 :> count) @@ (80 :> 100) @@ (84 :> 150)
  @@ Cells(100, first) @@ Cells(150, second) @@ (200 :> "kp")

\* A table is read as it is in memory, or refused: when a mark, a count, a
\* tag or a text is not one, or when two values share an id, so that a
\* request could mean either.  What is then written for an accepted request
\* reads back as the value asked for, within the range the firmware declares
\* (TableLayout::find, read, read_entry, request_bits).
CatalogTrue ==
  Open /\ (\E e \in Range(entries) : e.short = <<"TABLE">>) =>
    LET layout == TableLayout[1] IN
    \A magic \in {0, TableMagic}, count \in 0 .. 3, first \in Entries, second \in {e \in Entries : e.access = 1 /\ e.text = 1} :
      LET read == ReadTable(layout, Image(TableCells(magic, count, first, second)))
          there == IF count = 0 THEN <<>> ELSE IF count = 1 THEN <<first>> ELSE <<first, second>>
          sound == /\ magic = TableMagic /\ count <= 2
                   /\ \A e \in Range(there) : e.kind < 4 /\ e.text <= MaxText
                   /\ count = 2 => first.id # second.id
      IN /\ (read.error = "") = sound
         /\ sound => [i \in DOMAIN read.entries |-> <<read.entries[i].id, read.entries[i].requested>>]
                       = [i \in DOMAIN there |-> <<there[i].id, 90 + 50 * i>>]
         /\ sound /\ count = 1 =>
              \A value \in -(2 * Word) .. 2 * Word : LET e == read.entries[1] IN
                Requestable(e, value) =>
                  /\ DecodeCell(e.kind, EncodeCell(e.kind, value)) = value
                  /\ first.access # 0
                  /\ first.max # NotFinite => value \in 0 .. first.max
====
