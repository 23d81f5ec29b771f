---- MODULE Elf ----
(*************************************************************************)
(* The symbols of an ELF file, studio-dwarf/src/elf.rs: those the linker *)
(* lists, given types from the debug information by address or else by   *)
(* name, and those only the debug information knows.  A name is the      *)
(* sequence of its segments; the linker's form of one is mangled by a    *)
(* first segment of its own.  Sizes and addresses are small numbers.     *)
(*************************************************************************)
EXTENDS Dwarf

VARIABLES
  linker,    \* the symbol tables of the file: static entries, then dynamic
  sections,  \* its sections in memory
  taken,     \* how many of the linker's symbols are read
  entries,   \* ElfInfo.symbols
  byName,    \* symbols_by_name: the index of the last symbol added under a name
  stage      \* "symbols", "dwarf", "sections", "open"

elfVars == <<linker, sections, taken, entries, byName, stage>>

Mangling == "_Z"
Demangled(name) == IF name[1] = Mangling THEN Tail(name) ELSE name
ShortName(name) == <<Last(name)>>

NoStatus == Status("none")

\* Mapping symbols, anonymous constants and debug sections are left out.
Listed(s) ==
  /\ s.sort \notin {"mapping", "anonymous", "debug"} /\ s.name # <<>>
  /\ ~(s.address = 0 /\ s.kind \in {"section", "file"})

Entry(name, address, size, kind, section, type, status) ==
  LET path == Demangled(name)
  IN [mangled |-> name, path |-> path, short |-> ShortName(path), address |-> address, size |-> size,
      kind |-> kind, section |-> section, type |-> type, status |-> status, writable |-> FALSE]

\* A name that is there already now means the new symbol.
Named(names, e, index) ==
  (e.short :> index) @@ (e.mangled :> index) @@ (e.path :> index) @@ names

AddSymbol ==
  LET s == linker[taken + 1]
      e == Entry(s.name, s.address, s.size, s.kind, s.section, Invalid, NoStatus)
  IN /\ stage = "symbols" /\ taken < Len(linker)
     /\ taken' = taken + 1
     /\ IF Listed(s) /\ ~(s.dynamic /\ s.name \in DOMAIN byName)
        THEN /\ entries' = Append(entries, e)
             /\ byName' = Named(byName, e, Len(entries) + 1)
        ELSE UNCHANGED <<entries, byName>>
     /\ UNCHANGED <<linker, sections, stage, dwarfVars>>

\* Debug information that cannot be read leaves the symbols as they are.
BeginDwarf ==
  /\ stage = "symbols" /\ taken = Len(linker)
  /\ stage' \in {"dwarf", "sections"}
  /\ UNCHANGED <<linker, sections, taken, entries, byName, dwarfVars>>

-----------------------------------------------------------------------------
(* parse_dwarf: types for the symbols. *)

\* Of several the last one collected.
LastOf(list, Test(_)) == LET hits == SelectSeq(list, Test) IN IF hits = <<>> THEN <<>> ELSE <<Last(hits)>>

FoundAt(address) == LastOf(symbols, LAMBDA s : IsReadable(s.status) /\ s.address = address)
FoundNamed(name) == LastOf(symbols, LAMBDA s : s.name = name)

\* The first of the symbol's names that debug information has.
FirstOf(names, Lookup(_)) ==
  LET hits == SelectSeq(names, LAMBDA n : Lookup(n) # <<>>)
  IN IF hits = <<>> THEN <<>> ELSE Lookup(hits[1])

SizeIfNone(size, better) == IF size = 0 THEN better ELSE size

Typed(e) ==
  LET found == IF FoundAt(e.address) # <<>> THEN FoundAt(e.address)
               ELSE FirstOf(<<e.short, e.path, e.mangled>>, FoundNamed)
      only == SelectSeq(<<e.mangled, e.path, e.short>>, LAMBDA n : n \in DOMAIN typeOf)
  IN CASE found # <<>> ->
            [e EXCEPT !.type = found[1].type, !.status = found[1].status,
                      !.size = SizeIfNone(@, found[1].size)]
       [] found = <<>> /\ only # <<>> ->
            [e EXCEPT !.type = typeOf[only[1]],
                      !.size = SizeIfNone(@, IF TypeSize(table, typeOf[only[1]]) = NoSize THEN 0
                                             ELSE TypeSize(table, typeOf[only[1]]))]
       [] OTHER -> e

\* Readable variables at an address no symbol has become symbols of their own.
Added(acc, s) ==
  LET e == Entry(s.name, s.address, s.size, "variable", "", s.type, s.status)
  IN IF ~IsReadable(s.status) \/ (\E i \in DOMAIN acc.list : acc.list[i].address = s.address) THEN acc
     ELSE [list |-> Append(acc.list, e), names |-> Named(acc.names, e, Len(acc.list) + 1)]

MergeDwarf ==
  LET typed == [i \in DOMAIN entries |-> Typed(entries[i])]
      all == FoldLeft(Added, [list |-> typed, names |-> byName], symbols)
  IN /\ stage = "dwarf" /\ Parsed
     /\ entries' = all.list /\ byName' = all.names
     /\ stage' = "sections"
     /\ UNCHANGED <<linker, sections, taken, dwarfVars>>

-----------------------------------------------------------------------------

Inside(s, a) == s.start <= a /\ a < s.start + (IF s.size = 0 THEN 1 ELSE s.size)
SectionOf(a) == SelectSeq(sections, LAMBDA s : Inside(s, a))

AssignSections ==
  /\ stage = "sections"
  /\ stage' = "open"
  /\ entries' = [i \in DOMAIN entries |->
       LET e == entries[i]
           in == SectionOf(e.address)
       IN IF in = <<>> THEN [e EXCEPT !.writable = FALSE]
          ELSE [e EXCEPT !.section = IF @ = "" THEN in[1].name ELSE @, !.writable = in[1].write]]
  /\ UNCHANGED <<linker, sections, taken, byName, dwarfVars>>

ElfInit(program, listed, placed) ==
  /\ DwarfInit(program)
  /\ linker = listed /\ sections = placed
  /\ taken = 0 /\ entries = <<>> /\ byName = <<>> /\ stage = "symbols"

ElfNext ==
  \/ AddSymbol
  \/ BeginDwarf
  \/ stage = "dwarf" /\ DwarfNext /\ UNCHANGED elfVars
  \/ MergeDwarf
  \/ AssignSections

-----------------------------------------------------------------------------
(* Asking the file. *)

FindSymbol(name) == IF name \in DOMAIN byName THEN <<entries[byName[name]]>> ELSE <<>>
Variables == SelectSeq(entries, LAMBDA e : e.kind = "variable")
Readable(e) == e.status = NoStatus \/ IsReadable(e.status)
====
