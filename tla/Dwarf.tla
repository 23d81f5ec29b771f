---- MODULE Dwarf ----
(*************************************************************************)
(* Debug information made into a table of types and a list of variables, *)
(* studio-dwarf/src/dwarf_parser.rs.  The input is the entries (DIEs) of *)
(* all units in file order, one taken per step.  An entry may refer to   *)
(* others before they are met, by an offset in its unit or in the whole  *)
(* section.  What an attribute's encoding yields is given as its value;  *)
(* a missing size is Absent, a missing name <<>> or "".                  *)
(*************************************************************************)
EXTENDS TypeTable

VARIABLES
  dies,      \* the entries, in the order they are met
  next,      \* the one to parse
  table,     \* type_table
  pending,   \* pending_symbols
  cache,     \* variable_cache, by offset in the section
  deferred,  \* deferred_variables
  symbols,   \* DwarfParseResult.symbols
  typeOf     \* DwarfParseResult.name_to_type

dwarfVars == <<dies, next, table, pending, cache, deferred, symbols, typeOf>>

Absent == -1
NoRef == [form |-> "none"]
NoKey == <<>>
Everywhere == -1     \* unit_index of a key that is an offset in the section
UnitSize == 100      \* the units follow each other in the section
NoAddress == -1

Global(u, off) == u * UnitSize + off

-----------------------------------------------------------------------------
(* Attributes. *)

RefKey(u, ref) ==
  CASE ref.form = "unit" -> <<u, ref.off>>
    [] ref.form = "section" -> <<Everywhere, ref.off>>
    [] OTHER -> NoKey

\* Template parameters and enums look at references into their own unit only.
UnitKey(u, ref) == IF ref.form = "unit" THEN <<u, ref.off>> ELSE NoKey

Linked(t, key) == IF key = NoKey THEN t ELSE Ensure(t, key)
IdOf(t, key) == IF key \in DOMAIN t.keys THEN t.keys[key] ELSE Invalid

VoidIds(t) == {i \in DOMAIN t.types : t.types[i] = Void}
EnsureVoid(t) == IF VoidIds(t) = {} THEN [t EXCEPT !.types = Append(@, Void)] ELSE t
LinkedOrVoid(t, key) == IF key = NoKey THEN EnsureVoid(t) ELSE Ensure(t, key)
IdOrVoid(t, key) ==
  IF key # NoKey THEN t.keys[key]
  ELSE CHOOSE i \in VoidIds(t) : \A j \in VoidIds(t) : i <= j

\* DW_AT_data_member_location: a number, or an expression whose first
\* operation that carries one gives it.
MemberOffset(at) ==
  CASE at.form = "data" -> at.value
    [] at.form = "expr" ->
         LET hits == SelectSeq(at.ops, LAMBDA o : o.op \in {"plus_uconst", "constu", "addr"})
         IN IF hits = <<>> THEN 0 ELSE hits[1].value
    [] OTHER -> 0

\* Only the first subrange with a bound counts.
ArrayCount(kids) ==
  LET bounded == SelectSeq(kids, LAMBDA k : k.tag = "subrange" /\ (k.count # Absent \/ k.upper # Absent))
  IN IF bounded = <<>> THEN NoCount
     ELSE IF bounded[1].count # Absent THEN bounded[1].count ELSE bounded[1].upper + 1

SizeOr(size, default) == IF size = Absent THEN default ELSE size

-----------------------------------------------------------------------------
(* Type entries: what each makes of the table. *)

KeyOf(d) == <<d.unit, d.off>>

Aliased(t, d) == RegisterAlias(t, <<Everywhere, Global(d.unit, d.off)>>, t.keys[KeyOf(d)])

Primitive(d) ==
  LET size == SizeOr(d.size, 0)
      ints == (1 :> "SignedChar") @@ (2 :> "Short") @@ (4 :> "Int") @@ (8 :> "LongLong")
      uints == (1 :> "UnsignedChar") @@ (2 :> "UnsignedShort") @@ (4 :> "UnsignedInt")
                 @@ (8 :> "UnsignedLongLong")
      floats == (4 :> "Float") @@ (8 :> "Double") @@ (16 :> "LongDouble")
      prim == CASE d.enc = "boolean" -> "Bool"
                [] d.enc = "signed_char" -> "SignedChar"
                [] d.enc = "unsigned_char" -> "UnsignedChar"
                [] d.enc = "signed" -> IF size \in DOMAIN ints THEN ints[size] ELSE "SizedInt"
                [] d.enc = "unsigned" -> IF size \in DOMAIN uints THEN uints[size] ELSE "SizedInt"
                [] d.enc = "float" -> IF size \in DOMAIN floats THEN floats[size] ELSE "SizedFloat"
                [] d.enc = "utf" -> "Char"
                [] OTHER -> IF d.named = "" THEN "SizedInt" ELSE d.named
  IN [kind |-> "primitive", name |-> d.name, prim |-> prim, signed |-> d.enc # "unsigned",
      size |-> IF prim \in {"SizedInt", "SizedFloat"} THEN size ELSE PrimSize(prim)]

ParsedBase(t, d) == InsertForKey(t, KeyOf(d), Primitive(d))

\* Pointers, references, qualifiers, typedefs and arrays: about one other type.
ParsedAbout(t, d) ==
  LET key == RefKey(d.unit, d.ty)
      u == LinkedOrVoid(t, key)
      def == [kind |-> d.tag, name |-> d.name, to |-> IdOrVoid(u, key), count |-> ArrayCount(d.kids)]
  IN InsertForKey(u, KeyOf(d), def)

ParsedMember(t, unit, kid) ==
  LET key == RefKey(unit, kid.ty)
      u == Linked(t, key)
  IN [table |-> u, member |-> [name |-> kid.name, offset |-> MemberOffset(kid.at),
                               type |-> IdOf(u, key), bits |-> kid.bits]]

NoMember == [name |-> "", offset |-> 0, type |-> Invalid, bits |-> 0]

\* A Rust enum's variants, and the member that tells which one is active.
ParsedVariants(t, unit, part) ==
  LET step(acc, kid) ==
        LET p == ParsedMember(acc.table, unit, kid)
        IN IF kid.tag = "member"
           THEN [acc EXCEPT !.table = p.table, !.members = Append(@, <<kid.off, p.member>>)]
           ELSE [acc EXCEPT !.table = p.table,
                            !.variants = Append(@, [value |-> kid.value, member |-> p.member])]
      acc == FoldLeft(step, [table |-> t, members |-> <<>>, variants |-> <<>>], part.kids)
      meant == IF part.discr = Absent THEN acc.members
               ELSE SelectSeq(acc.members, LAMBDA m : m[1] = part.discr)
  IN [table |-> acc.table, variants |-> acc.variants,
      discr |-> IF meant = <<>> THEN NoMember ELSE meant[1][2]]

ParsedKid(unit, acc, kid) ==
  CASE kid.tag = "member" ->
         LET p == ParsedMember(acc.table, unit, kid)
         IN [table |-> p.table, def |-> [acc.def EXCEPT !.members = Append(@, p.member)]]
    [] kid.tag = "inheritance" /\ RefKey(unit, kid.ty) # NoKey ->
         LET p == ParsedMember(acc.table, unit, kid)
         IN [table |-> p.table,
             def |-> [acc.def EXCEPT !.bases = Append(@, [type |-> p.member.type, offset |-> p.member.offset])]]
    [] kid.tag = "template_type" ->
         [acc EXCEPT !.table = LinkedOrVoid(@, UnitKey(unit, kid.ty))]
    [] kid.tag = "variant_part" ->
         LET p == ParsedVariants(acc.table, unit, kid)
         IN [table |-> p.table,
             def |-> [acc.def EXCEPT !.tagged = TRUE, !.variants = p.variants, !.discr = p.discr]]
    [] OTHER -> acc

\* The type has its place in the table before its members, which may refer to it.
ParsedStruct(t, d) ==
  LET u == Ensure(t, KeyOf(d))
      empty == [kind |-> IF d.tag = "union" THEN "union" ELSE "struct", name |-> d.name,
                size |-> SizeOr(d.size, 0), members |-> <<>>, bases |-> <<>>,
                tagged |-> FALSE, variants |-> <<>>, discr |-> NoMember]
      acc == FoldLeft(LAMBDA a, k : ParsedKid(d.unit, a, k), [table |-> u, def |-> empty], d.kids)
  IN IF d.decl THEN InsertForKey(t, KeyOf(d), Forward(d.name, d.tag))
     ELSE Define(acc.table, u.keys[KeyOf(d)], acc.def)

ParsedEnum(t, d) ==
  LET key == UnitKey(d.unit, d.ty)
      enum == [kind |-> "enum", name |-> d.name, size |-> SizeOr(d.size, 4),
               values |-> Len(SelectSeq(d.kids, LAMBDA k : k.tag = "enumerator" /\ k.name # ""))]
  IN IF d.decl THEN InsertForKey(t, KeyOf(d), Forward(d.name, "enum"))
     ELSE InsertForKey(Linked(t, key), KeyOf(d), enum)

ParsedSubroutine(t, d) ==
  InsertForKey(Linked(t, RefKey(d.unit, d.ty)), KeyOf(d), [kind |-> "subroutine"])

ParsedUnspecified(t, d) == InsertForKey(t, KeyOf(d), Void)

-----------------------------------------------------------------------------
(* Where a variable is. *)

Answerable == {"index", "relocation", "base_type"}
Runtime == {"register", "frame_base", "memory", "tls", "cfa", "at_location", "entry_value", "parameter"}

At(address) == [is |-> IF address = 0 THEN "zero" ELSE "valid", address |-> address]
Status(is) == [is |-> is, address |-> NoAddress]

\* What an evaluation asks for that the file cannot answer, first first.
Unanswered(expr) == SelectSeq(expr.asks, LAMBDA a : a \notin Answerable)

ExprStatus(expr) ==
  LET stop == Unanswered(expr)
      piece == expr.pieces[1]
      has == \E i \in DOMAIN expr.pieces : expr.pieces[i].at = "address"
  IN IF stop # <<>> THEN Status(IF stop[1] \in Runtime THEN "local" ELSE "no_location")
     ELSE IF expr.pieces = <<>> THEN Status("optimized_out")
     ELSE IF Len(expr.pieces) > 1 THEN Status(IF has THEN "pieces_with_address" ELSE "pieces")
     ELSE CASE piece.at = "address" -> At(piece.address)
            [] piece.at \in {"value", "bytes"} -> Status("implicit_value")
            [] piece.at = "empty" -> Status("optimized_out")
            [] OTHER -> Status(piece.at)

\* The first address in an expression of a location list.
ExprAddress(expr) ==
  LET hits == SelectSeq(expr.pieces, LAMBDA p : p.at = "address")
  IN IF Unanswered(expr) # <<>> \/ hits = <<>> THEN NoAddress ELSE hits[1].address

ListAddress(exprs) ==
  LET found == SelectSeq(exprs, LAMBDA e : ExprAddress(e) # NoAddress)
  IN IF found = <<>> THEN NoAddress ELSE ExprAddress(found[1])

LocationStatus(loc) ==
  CASE loc.form = "addr" -> At(loc.value)
    [] loc.form = "expr" -> ExprStatus(loc.expr)
    [] loc.form = "list" ->
         IF ListAddress(loc.exprs) = NoAddress THEN Status("local") ELSE At(ListAddress(loc.exprs))
    [] OTHER -> Status("no_location")

VariableStatus(d) ==
  LET located == d.loc.form # "none" IN
  CASE d.artificial -> Status("artificial")
    [] ~d.artificial /\ d.const /\ ~located -> Status("constant")
    [] ~d.artificial /\ ~d.const /\ ~located /\ d.external -> Status("extern")
    [] ~d.artificial /\ ~d.const /\ ~located /\ ~d.external -> Status("optimized_out")
    [] OTHER -> LocationStatus(d.loc)

IsReadable(s) == s.is \in {"valid", "zero", "pieces_with_address"}
AddressOf(s) == IF s.is = "valid" THEN s.address ELSE 0

-----------------------------------------------------------------------------
(* Variables. *)

VariableInfo(d) ==
  [name |-> d.name, linkage |-> d.linkage, key |-> RefKey(d.unit, d.ty),
   size |-> SizeOr(d.size, 0), global |-> d.external]

Inherited(info, from) ==
  [name |-> IF info.name = <<>> THEN from.name ELSE info.name,
   linkage |-> IF info.linkage = <<>> THEN from.linkage ELSE info.linkage,
   key |-> IF info.key = NoKey THEN from.key ELSE info.key,
   size |-> IF info.size = 0 THEN from.size ELSE info.size,
   global |-> info.global \/ from.global]

\* DW_AT_specification, or else DW_AT_abstract_origin.
Target(d) ==
  LET off(ref) == IF ref.form = "unit" THEN Global(d.unit, ref.off) ELSE ref.off
  IN CASE d.spec # NoRef -> off(d.spec)
       [] d.spec = NoRef /\ d.origin # NoRef -> off(d.origin)
       [] OTHER -> Absent

\* A variable without a name or a type becomes no symbol.
WithSymbol(list, info, status) ==
  LET symbol == [name |-> IF info.name # <<>> THEN info.name ELSE info.linkage,
                 size |-> info.size, key |-> info.key, global |-> info.global, status |-> status]
  IN IF symbol.name = <<>> \/ info.key = NoKey THEN list ELSE Append(list, symbol)

\* A mutant that does not wait for a declaration that comes later.
ParseVariable_Early ==
  LET d == dies[next]
      info == VariableInfo(d)
      known == IF info.key = NoKey THEN cache ELSE (Global(d.unit, d.off) :> info) @@ cache
  IN /\ next <= Len(dies) /\ d.tag = "variable"
     /\ next' = next + 1
     /\ cache' = known
     /\ pending' = IF d.decl THEN pending
                   ELSE WithSymbol(pending, IF Target(d) \in DOMAIN known THEN Inherited(info, known[Target(d)]) ELSE info,
                                   VariableStatus(d))
     /\ UNCHANGED <<dies, table, deferred, symbols, typeOf>>

ParseVariable ==
  LET d == dies[next]
      info == VariableInfo(d)
      known == IF info.key = NoKey THEN cache ELSE (Global(d.unit, d.off) :> info) @@ cache
      status == VariableStatus(d)
  IN /\ next <= Len(dies) /\ d.tag = "variable"
     /\ next' = next + 1
     /\ cache' = known
     /\ IF d.decl THEN UNCHANGED <<pending, deferred>>
        ELSE IF Target(d) # Absent /\ Target(d) \notin DOMAIN known
             THEN /\ deferred' = Append(deferred, [info |-> info, status |-> status, target |-> Target(d)])
                  /\ UNCHANGED pending
             ELSE /\ pending' = WithSymbol(pending,
                                  IF Target(d) = Absent THEN info ELSE Inherited(info, known[Target(d)]), status)
                  /\ UNCHANGED deferred
     /\ UNCHANGED <<dies, table, symbols, typeOf>>

\* Takes the next entry, if it is of these kinds, as `parsed` makes of it.
ParseType(tags, parsed(_, _)) ==
  /\ next <= Len(dies) /\ dies[next].tag \in tags
  /\ next' = next + 1
  /\ table' = Aliased(parsed(table, dies[next]), dies[next])
  /\ UNCHANGED <<dies, pending, cache, deferred, symbols, typeOf>>

ParseBase == ParseType({"base"}, ParsedBase)
ParseAbout == ParseType(Pointers \cup Qualifiers \cup {"typedef", "array"}, ParsedAbout)
ParseStruct == ParseType({"struct", "class", "union"}, ParsedStruct)
ParseEnum == ParseType({"enum"}, ParsedEnum)
ParseSubroutine == ParseType({"subroutine"}, ParsedSubroutine)
ParseUnspecified == ParseType({"unspecified"}, ParsedUnspecified)

-----------------------------------------------------------------------------
(* The end. *)

Resolved(list) ==
  FoldLeft(LAMBDA acc, d :
             WithSymbol(acc, IF d.target \in DOMAIN cache THEN Inherited(d.info, cache[d.target]) ELSE d.info,
                        d.status),
           list, deferred)

Shifted(members, by) == [i \in DOMAIN members |-> [members[i] EXCEPT !.offset = @ + by]]

\* A mutant that takes a base's members as it finds them.
InheritFor_Flat(acc, id) ==
  LET def == Def(acc.table, id)
      of(base) == Shifted(Members(acc.table, Resolve(acc.table, base.type)), base.offset)
      got == FoldLeft(LAMBDA x, base : x \o of(base), <<>>, def.bases)
  IN [table |-> IF def.kind \in Aggregates THEN [acc.table EXCEPT !.types[id].members = got \o @] ELSE acc.table,
      visited |-> acc.visited \cup {id}]

\* Puts the members of a type's bases before its own, the bases' bases first.
RECURSIVE InheritFor(_, _)
InheritFor(acc, id) ==
  LET def == Def(acc.table, id)
      entered == [acc EXCEPT !.visited = @ \cup {id}]
      step(x, base) ==
        LET b == Resolve(x.table, base.type)
            y == InheritFor([table |-> x.table, visited |-> x.visited], b)
        IN [table |-> y.table, visited |-> y.visited,
            got |-> x.got \o Shifted(Members(y.table, b), base.offset)]
      all == FoldLeft(step, [table |-> acc.table, visited |-> entered.visited, got |-> <<>>], def.bases)
  IN IF id \in acc.visited THEN acc
     ELSE IF def.kind \notin Aggregates THEN entered
     ELSE [table |-> [all.table EXCEPT !.types[id].members = all.got \o @], visited |-> all.visited]

InheritAll(t) ==
  FoldLeft(LAMBDA u, id : IF Def(u, id).kind \in Aggregates
                          THEN InheritFor([table |-> u, visited |-> {}], id).table ELSE u,
           t, [i \in DOMAIN t.types |-> i])

Finish ==
  LET list == Resolved(pending)
      t == InheritAll(ResolveForwards(table))
      typed == SelectSeq(list, LAMBDA p : p.key \in DOMAIN t.keys)
      symbol(p) == [name |-> p.name, address |-> AddressOf(p.status), status |-> p.status,
                    type |-> t.keys[p.key], global |-> p.global,
                    size |-> IF p.size > 0 THEN p.size
                             ELSE IF TypeSize(t, t.keys[p.key]) = NoSize THEN 0 ELSE TypeSize(t, t.keys[p.key])]
  IN /\ next = Len(dies) + 1
     /\ next' = next + 1
     /\ table' = t
     /\ symbols' = [i \in DOMAIN typed |-> symbol(typed[i])]
     /\ typeOf' = FoldLeft(LAMBDA f, p : (p.name :> t.keys[p.key]) @@ f, <<>>, typed)
     /\ deferred' = <<>> /\ pending' = <<>>
     /\ UNCHANGED <<dies, cache>>

DwarfInit(program) ==
  /\ dies = program
  /\ next = 1
  /\ table = EmptyTable
  /\ pending = <<>> /\ cache = <<>> /\ deferred = <<>> /\ symbols = <<>> /\ typeOf = <<>>

Parsed == next = Len(dies) + 2

DwarfNext ==
  \/ ParseBase \/ ParseAbout \/ ParseStruct \/ ParseEnum \/ ParseSubroutine \/ ParseUnspecified
  \/ ParseVariable
  \/ Finish
====
