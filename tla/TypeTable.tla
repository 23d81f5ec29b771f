---- MODULE TypeTable ----
(*************************************************************************)
(* The table of types that symbols are read through,                     *)
(* studio-dwarf/src/type_table.rs: operators on a table, a record of     *)
(* the types in the order allocated, the debug-info keys they are known  *)
(* by, their names, and the forward declarations not yet resolved.       *)
(* A type is a record with its kind; pointers, qualifiers, typedefs and  *)
(* arrays have the type they are about in the field `to`.  How a type is *)
(* spelled is left out.                                                  *)
(*************************************************************************)
EXTENDS Integers, Sequences, SequencesExt, FiniteSets, TLC

Invalid == 0         \* TypeId::INVALID, and a type that is not given
NoCount == -1        \* an array whose length is not known
MaxDepth == 20       \* how far a chain of types is followed

Placeholder == [kind |-> "placeholder"]
Void == [kind |-> "void"]
Forward(name, of) == [kind |-> "forward", name |-> name, of |-> of, target |-> Invalid]

Qualifiers == {"const", "volatile", "restrict"}
Pointers == {"pointer", "reference"}
Aggregates == {"struct", "union"}

EmptyTable ==
  [types |-> <<>>, keys |-> <<>>, named |-> <<>>, waiting |-> <<>>]

Known(t, id) == id \in DOMAIN t.types
Def(t, id) == IF Known(t, id) THEN t.types[id] ELSE [kind |-> "none"]

-----------------------------------------------------------------------------
(* Building the table. *)

Ensure(t, key) ==
  IF key \in DOMAIN t.keys THEN t
  ELSE [t EXCEPT !.types = Append(@, Placeholder), !.keys = (key :> (Len(t.types) + 1)) @@ @]

HasName(def) ==
  \/ def.kind \in {"primitive", "typedef"}
  \/ def.kind \in Aggregates \cup {"enum"} /\ def.name # ""

Define(t, id, def) ==
  [t EXCEPT !.types[id] = def,
            !.waiting = IF def.kind = "forward" THEN Append(@, id) ELSE @,
            !.named = IF HasName(def) THEN Append(@, <<def.name, id>>) ELSE @]

InsertForKey(t, key, def) ==
  LET u == Ensure(t, key) IN Define(u, u.keys[key], def)

RegisterAlias(t, key, id) ==
  IF key \in DOMAIN t.keys THEN t ELSE [t EXCEPT !.keys = (key :> id) @@ @]

FindByName(t, name) ==
  LET hits == SelectSeq(t.named, LAMBDA p : p[1] = name)
  IN [i \in DOMAIN hits |-> hits[i][2]]

Fills(of, def) ==
  \/ of \in {"struct", "class"} /\ def.kind = "struct"
  \/ of \in {"union", "enum"} /\ def.kind = of

Fullness(def) == IF def.kind = "enum" THEN def.values ELSE Len(def.members)

\* Of several definitions the first with the most members.
FindBest(t, name, of) ==
  LET fit == SelectSeq(FindByName(t, name), LAMBDA id : Fills(of, Def(t, id)))
      count(i) == Fullness(Def(t, fit[i]))
  IN IF fit = <<>> THEN Invalid
     ELSE fit[CHOOSE i \in DOMAIN fit : \A j \in DOMAIN fit :
                count(j) < count(i) \/ (count(j) = count(i) /\ i <= j)]

ResolveForwards(t) ==
  LET open(id) == Def(t, id).kind = "forward" /\ Def(t, id).target = Invalid
  IN [t EXCEPT
       !.waiting = <<>>,
       !.types = [id \in DOMAIN @ |->
                    IF id \in Range(t.waiting) /\ open(id)
                    THEN [@[id] EXCEPT !.target = FindBest(t, t.types[id].name, t.types[id].of)]
                    ELSE @[id]]]

-----------------------------------------------------------------------------
(* Asking the table. *)

RECURSIVE Resolve(_, _)
Resolve(t, id) ==
  IF Def(t, id).kind = "forward" /\ Def(t, id).target # Invalid
  THEN Resolve(t, Def(t, id).target) ELSE id

PrimSize(p) ==
  CASE p \in {"Bool", "Char", "SignedChar", "UnsignedChar"} -> 1
    [] p \in {"Short", "UnsignedShort"} -> 2
    [] p \in {"Int", "UnsignedInt", "Float", "Long", "UnsignedLong"} -> 4
    [] p \in {"LongLong", "UnsignedLongLong", "Double"} -> 8
    [] p = "LongDouble" -> 16

NoSize == -1

RECURSIVE TypeSize(_, _)
DefSize(t, def) ==
  CASE def.kind = "primitive" -> def.size
    [] def.kind \in Pointers \cup {"subroutine"} -> 4
    [] def.kind = "array" ->
         IF TypeSize(t, def.to) = NoSize THEN NoSize
         ELSE TypeSize(t, def.to) * (IF def.count = NoCount THEN 0 ELSE def.count)
    [] def.kind \in Aggregates \cup {"enum", "unknown"} -> def.size
    [] def.kind \in Qualifiers \cup {"typedef"} -> TypeSize(t, def.to)
    [] def.kind = "void" -> 0
    [] OTHER -> NoSize
TypeSize(t, id) == DefSize(t, Def(t, Resolve(t, id)))

\* Typedefs, qualifiers and forward declarations stripped.
RECURSIVE UnderlyingFrom(_, _, _)
Stripped(t, id, depth) ==
  IF Def(t, id).kind \in Qualifiers \cup {"typedef"}
  THEN UnderlyingFrom(t, Def(t, id).to, depth + 1) ELSE id
UnderlyingFrom(t, id, depth) ==
  IF depth > MaxDepth THEN id ELSE Stripped(t, Resolve(t, id), depth)
Underlying(t, id) == UnderlyingFrom(t, id, 0)
UnderlyingDef(t, id) == Def(t, Underlying(t, id))

\* The members of a struct or union behind typedefs and qualifiers.
Members(t, id) ==
  LET def == UnderlyingDef(t, id)
  IN IF def.kind \in Aggregates THEN def.members ELSE <<>>

RECURSIVE ExpandableFrom(_, _, _)
ExpandableFrom(t, id, depth) ==
  LET def == Def(t, Resolve(t, id)) IN
  /\ depth <= MaxDepth
  /\ \/ def.kind \in Aggregates /\ (def.members # <<>> \/ def.variants # <<>>)
     \/ def.kind = "array" /\ def.count > 0
     \/ /\ def.kind \in Pointers \cup Qualifiers \cup {"typedef"}
        /\ ExpandableFrom(t, def.to, depth + 1)
IsExpandable(t, id) == ExpandableFrom(t, id, 0)

RECURSIVE IsAddable(_, _)
IsAddable(t, id) ==
  LET def == Def(t, Resolve(t, id)) IN
  \/ def.kind \in Pointers \cup Aggregates \cup {"primitive", "enum", "array"}
  \/ def.kind \in Qualifiers \cup {"typedef"} /\ IsAddable(t, def.to)
  \/ def.kind = "unknown" /\ def.size > 0

\* What a value of the type is read as: a number of a width, or raw bytes.
PrimVariable(def) ==
  CASE def.prim = "Bool" -> <<"bool", 1>>
    [] def.prim \in {"Char", "SignedChar"} -> <<"signed", 1>>
    [] def.prim \in {"Float", "Double"} -> <<"float", def.size>>
    [] def.prim = "LongDouble" -> <<"float", 8>>
    [] def.prim \in {"Short", "Int", "Long", "LongLong"} -> <<"signed", def.size>>
    [] def.prim = "SizedInt" ->
         IF def.size \in {1, 2, 4, 8}
         THEN <<IF def.signed THEN "signed" ELSE "unsigned", def.size>> ELSE <<"raw", def.size>>
    [] def.prim = "SizedFloat" ->
         IF def.size \in {4, 8} THEN <<"float", def.size>> ELSE <<"raw", def.size>>
    [] OTHER -> <<"unsigned", def.size>>

RECURSIVE VariableType(_, _)
VariableType(t, id) ==
  LET def == Def(t, Resolve(t, id)) IN
  CASE def.kind = "primitive" -> PrimVariable(def)
    [] def.kind \in Pointers \cup {"subroutine"} -> <<"unsigned", 4>>
    [] def.kind = "enum" ->
         IF def.size \in {1, 2, 4, 8} THEN <<"unsigned", def.size>> ELSE <<"raw", def.size>>
    [] def.kind \in Aggregates \cup {"unknown"} -> <<"raw", def.size>>
    [] def.kind = "array" ->
         <<"raw", (IF TypeSize(t, def.to) = NoSize THEN 0 ELSE TypeSize(t, def.to))
                  * (IF def.count = NoCount THEN 1 ELSE def.count)>>
    [] def.kind \in Qualifiers \cup {"typedef"} -> VariableType(t, def.to)
    [] OTHER -> <<"raw", 0>>

Pointee(t, id) ==
  LET def == UnderlyingDef(t, id) IN IF def.kind \in Pointers THEN def.to ELSE Invalid
IsPointerExpandable(t, id) ==
  LET def == UnderlyingDef(t, Pointee(t, id))
  IN Pointee(t, id) # Invalid /\ def.kind \in Aggregates \cup {"array"}
====
