---- MODULE Catalog ----
(*************************************************************************)
(* The values a firmware offers for tuning, studio-core/src/catalog.rs:  *)
(* its table found in the debug information by type and field names,     *)
(* decoded from memory, and what a user asks of one of its values.       *)
(* Memory is a function from an address to the number, or the text,      *)
(* there; a read elsewhere fails.  A value is counted in halves.         *)
(*************************************************************************)
EXTENDS Tree

CONSTANTS
  TableMagic, TableVersion,
  MaxEntries, MaxText,
  WordBits       \* the width of a cell

Kinds == <<"F32", "I32", "U32", "Bool">>            \* by tag, from 0
Accesses == <<"ReadOnly", "Live", "SafeOnly">>
NotFinite == 1000    \* a float that is no number: no bound
NoText == ""

-----------------------------------------------------------------------------
(* The layout. *)

NoField == [offset |-> 0, size |-> NoSize, type |-> Invalid]

FirstField(hits) ==
  IF hits = <<>> THEN NoField
  ELSE [offset |-> hits[1].offset, size |-> TypeSize(table, hits[1].type), type |-> hits[1].type]
Field(type, name) == FirstField(SelectSeq(Members(table, type), LAMBDA m : m.name = name))

\* The pointer or the length of a slice, from the start of what holds it.
PartOf(outer, part) ==
  IF outer.size = NoSize THEN NoField ELSE [Field(outer.type, part) EXCEPT !.offset = @ + outer.offset]
Part(type, name, part) == PartOf(Field(type, name), part)

IsTable(type) ==
  /\ \A want \in {"magic", "version", "entries"} : \E m \in Range(Members(table, type)) : m.name = want
  /\ UnderlyingDef(table, type).name = "Table"

Sizes == [id |-> 4, kind |-> 1, access |-> 1, default |-> 4, min |-> 4, max |-> 4, max_step |-> 4,
          requested |-> 4, applied |-> 4]
Slices == {<<"name", "data_ptr">>, <<"name", "length">>, <<"unit", "data_ptr">>, <<"unit", "length">>}

\* The first table among the variables; <<>> when there is none or its type
\* is not what this version reads.
LayoutWith(address, top, list, count, pointer, fields, slices) ==
  IF \/ NoSize \in {list.size, count.size} \cup {slices[p].size : p \in Slices}
     \/ \E f \in DOMAIN top : top[f].size # 4
     \/ \E f \in DOMAIN Sizes : fields[f].size # Sizes[f]
  THEN <<>>
  ELSE <<[address |-> address, magic |-> top["magic"].offset, version |-> top["version"].offset,
          list |-> list.offset, count |-> count.offset, pointer |-> pointer,
          fields |-> [f \in DOMAIN Sizes |-> fields[f].offset],
          slices |-> [p \in Slices |-> slices[p].offset]]>>

\* The list holds pointers, `ref`, to entries.
LayoutOfTable(v, list, ref, entry) ==
  IF ref = Invalid \/ entry = Invalid THEN <<>>
  ELSE LayoutWith(v.address, [f \in {"magic", "version"} |-> Field(v.type, f)],
                  list, Part(v.type, "entries", "length"), ElementSize(ref),
                  [f \in DOMAIN Sizes |-> Field(entry, f)], [p \in Slices |-> Part(entry, p[1], p[2])])

LayoutFrom(v, list, ref) == LayoutOfTable(v, list, ref, Underlying(table, Pointee(table, ref)))
LayoutIn(v, list) == LayoutFrom(v, list, Pointee(table, list.type))

TableLayout ==
  LET hits == SelectSeq(Variables, LAMBDA e : Members(table, e.type) # <<>> /\ IsTable(e.type))
  IN IF hits = <<>> THEN <<>> ELSE LayoutIn(hits[1], Part(hits[1].type, "entries", "data_ptr"))

-----------------------------------------------------------------------------
(* The values. *)

Word == 2 ^ WordBits
Signed(bits) == IF bits >= Word \div 2 THEN bits - Word ELSE bits

DecodeCell(kind, bits) == IF kind = "F32" THEN bits ELSE 2 * (IF kind = "I32" THEN Signed(bits) ELSE bits)

Fits(kind, value) ==
  /\ value # NotFinite
  /\ CASE kind = "F32" -> TRUE
       [] kind = "I32" -> value % 2 = 0 /\ value \div 2 \in -(Word \div 2) .. (Word \div 2) - 1
       [] kind = "U32" -> value % 2 = 0 /\ value \div 2 \in 0 .. Word - 1
       [] kind = "Bool" -> value \in {0, 2}

EncodeCell(kind, value) == IF kind = "F32" THEN value ELSE (value \div 2) % Word

\* Accepted as the firmware will check it.
Requestable(entry, value) ==
  /\ entry.access # "ReadOnly"
  /\ entry.min # NotFinite /\ entry.max # NotFinite => entry.min <= value /\ value <= entry.max
  /\ Fits(entry.kind, value)

-----------------------------------------------------------------------------
(* Reading. *)

Failed(why) == [error |-> why, entries |-> <<>>]

\* Each initialised section at its run address, but none at address zero.
Image(memory) ==
  [a \in {b \in DOMAIN memory : \E s \in Range(sections) : s.loaded /\ s.start # 0 /\ Inside(s, b)} |-> memory[a]]

ReadText(memory, at, pointer, length) ==
  LET n == memory[at + length]
  IN IF n > MaxText THEN <<>> ELSE IF n = 0 THEN <<NoText>> ELSE <<memory[memory[at + pointer]]>>

ReadEntry(layout, memory, at) ==
  LET cell(f) == memory[at + layout.fields[f]]
      text(f) == ReadText(memory, at, layout.slices[<<f, "data_ptr">>], layout.slices[<<f, "length">>])
      bound(f) == IF cell("access") = 0 THEN NotFinite ELSE cell(f)
      fields == {at + layout.fields[f] : f \in DOMAIN Sizes \ {"requested", "applied"}}
                \cup {at + layout.slices[p] : p \in Slices}
      texts(f) == IF memory[at + layout.slices[<<f, "length">>]] \in 1 .. MaxText
                  THEN {memory[at + layout.slices[<<f, "data_ptr">>]]} ELSE {}
  IN IF ~(fields \subseteq DOMAIN memory) THEN Failed("memory")
     ELSE IF cell("kind") >= Len(Kinds) THEN Failed("kind")
     ELSE IF cell("access") >= Len(Accesses) THEN Failed("access")
     ELSE IF ~(texts("name") \cup texts("unit") \subseteq DOMAIN memory) THEN Failed("memory")
     ELSE IF text("name") = <<>> \/ text("unit") = <<>> THEN Failed("text")
     ELSE [error |-> "",
           entries |-> <<[id |-> cell("id"), name |-> text("name")[1], unit |-> text("unit")[1],
                          kind |-> Kinds[cell("kind") + 1], access |-> Accesses[cell("access") + 1],
                          default |-> DecodeCell(Kinds[cell("kind") + 1], cell("default")),
                          min |-> bound("min"), max |-> bound("max"), step |-> bound("max_step"),
                          requested |-> at + layout.fields["requested"],
                          applied |-> at + layout.fields["applied"]]>>]

\* A mutant that finds no clash.
Clash_Never(acc, entry) == FALSE

\* Two entries of one id make the table invalid.
Clash(acc, entry) == \E e \in Range(acc.entries) : e.id = entry.id

ReadTable(layout, memory) ==
  LET at(f) == layout.address + layout[f]
      slot(i) == memory[at("list")] + (i - 1) * layout.pointer
      add(acc, i) ==
        LET entry == IF slot(i) \in DOMAIN memory THEN ReadEntry(layout, memory, memory[slot(i)])
                     ELSE Failed("memory")
        IN IF acc.error # "" THEN acc
           ELSE IF entry.error # "" THEN entry
           ELSE IF Clash(acc, entry.entries[1]) THEN Failed("clash")
           ELSE [acc EXCEPT !.entries = @ \o entry.entries]
  IN IF ~({at("magic"), at("version"), at("list"), at("count")} \subseteq DOMAIN memory) THEN Failed("memory")
     ELSE IF memory[at("magic")] # TableMagic THEN Failed("magic")
     ELSE IF memory[at("version")] # TableVersion THEN Failed("version")
     ELSE IF memory[at("count")] > MaxEntries THEN Failed("count")
     ELSE FoldLeft(add, [error |-> "", entries |-> <<>>], [i \in 1 .. memory[at("count")] |-> i])
====
