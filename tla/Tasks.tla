---- MODULE Tasks ----
(*************************************************************************)
(* The tasks of a firmware, studio-dwarf/src/tasks.rs and task_stats.rs: *)
(* one for each slot of a task pool, what bytes tell its state, and the  *)
(* counters the firmware keeps of it.  Memory is a function from an      *)
(* address to the value of the field there.                              *)
(*************************************************************************)
EXTENDS Tree

CONSTANTS
  StatsMagic, StatsVersion,   \* STATS_MAGIC, STATS_VERSION
  MaxSlots                    \* MAX_SLOTS

Child(ref, step) == [ref EXCEPT !.steps = Append(@, step)]
At2(ref, a, b) == ResolveNode(Child(Child(ref, Member(a)), Member(b)))

TaskSlots ==
  UNION {LET s == StorageOf(e.path, e.size)[1]
         IN {[pool |-> e.path, slot |-> i,
              node |-> Node(e.path, <<TaskSlot(i)>>, e.address + i * s.size, s.type, 0)] : i \in 0 .. s.slots - 1} :
         e \in {f \in Range(Variables) : StorageOf(f.path, f.size) # <<>>}}

\* The tag of a task's future, and the states it selects; <<>> when the
\* future is no tagged enum.
StatesOf(future, def) ==
  IF def.kind \notin Aggregates THEN <<>>
  ELSE IF ~def.tagged \/ def.discr = NoMember THEN <<>>
  ELSE <<[tag |-> future.address + def.discr.offset, points |-> def.variants]>>
States(future) ==
  IF future = Unresolved THEN <<>> ELSE StatesOf(future, UnderlyingDef(table, Peel(future.type)))

\* Two bits of a number, or two members of their own.
ProbeOf(state, future) ==
  LET flag(name) == ResolveNode(Child(state, Member(name))).address
      bits == Scalar(state) # <<"none", 0>>
  IN [spawned |-> IF bits THEN [address |-> state.address, mask |-> 1]
                  ELSE [address |-> flag("spawned"), mask |-> 255],
      queued |-> IF bits THEN [address |-> state.address, mask |-> 2]
                 ELSE [address |-> flag("run_queued"), mask |-> 255],
      states |-> States(future)]
Probe(task) == ProbeOf(At2(task, "raw", "state"), ResolveNode(Child(task, Member("future"))))

IsSet(flag, memory) ==
  CASE flag.mask = 1 -> memory[flag.address] % 2 = 1
    [] flag.mask = 2 -> (memory[flag.address] \div 2) % 2 = 1
    [] OTHER -> memory[flag.address] # 0

Active(states, memory) ==
  LET points == states[1].points
      exact == SelectSeq(points, LAMBDA p : p.value = memory[states[1].tag])
      default == SelectSeq(points, LAMBDA p : p.value = Absent)
      hits == exact \o default
  IN IF hits = <<>> THEN "" ELSE hits[1].member.name

\* A mutant that takes the future of a free slot for a task.
DecodeTask_Always(probe, memory) ==
  [spawned |-> IsSet(probe.spawned, memory),
   queued |-> IsSet(probe.queued, memory),
   at |-> IF probe.states # <<>> THEN Active(probe.states, memory) ELSE ""]

\* The future is not initialised before the task is spawned.
DecodeTask(probe, memory) ==
  LET spawned == IsSet(probe.spawned, memory)
  IN [spawned |-> spawned,
      queued |-> spawned /\ IsSet(probe.queued, memory),
      at |-> IF spawned /\ probe.states # <<>> THEN Active(probe.states, memory) ELSE ""]

-----------------------------------------------------------------------------
(* RM_TASK_STATS, found by the names of its fields. *)

Words == {"magic", "version", "clock_hz", "untracked"}
Counters == {"task", "polls", "cycles", "max_cycles", "peak", "last_peak"}

\* A word of four bytes in a struct, as the set of its addresses.
WordAt(node) == IF node # Unresolved /\ ElementSize(node.type) = 4 THEN {node.address} ELSE {}

LayoutOf(slots, count, words, counters) ==
  IF count \notin 1 .. MaxSlots \/ {} \in {words[n] : n \in Words} \cup {counters[n] : n \in Counters} THEN <<>>
  ELSE <<[words |-> [n \in Words |-> CHOOSE a \in words[n] : TRUE],
          slots |-> slots.address,
          count |-> count,
          stride |-> ElementSize(slots.type) \div count,
          slot |-> [n \in Counters |-> (CHOOSE a \in counters[n] : TRUE) - slots.address]]>>

LayoutAt(root, slots) ==
  IF slots = Unresolved THEN <<>>
  ELSE IF UnderlyingDef(table, Peel(slots.type)).kind # "array" THEN <<>>
  ELSE LayoutOf(slots, ChildCount(slots),
                [n \in Words |-> WordAt(ResolveNode(Child(root, Member(n))))],
                [n \in Counters |-> WordAt(ResolveNode(Child(Child(slots, Index(0)), Member(n))))])

StatsLayout ==
  LET hits == SelectSeq(Variables, LAMBDA e : e.short = <<"RM_TASK_STATS">>)
  IN IF hits = <<>> THEN <<>>
     ELSE LayoutAt(Root(hits[1]), ResolveNode(Child(Root(hits[1]), Member("slots"))))

\* What one read of the static says: nothing before the firmware has set it
\* up, else the counters of the slots in use.
StatsReading(layout, memory) ==
  LET at(i) == layout.slots + i * layout.stride
      value(i, n) == memory[at(i) + layout.slot[n]]
      used == SelectSeq([k \in 1 .. layout.count |-> k - 1], LAMBDA i : value(i, "task") # 0)
      larger(a, b) == IF a > b THEN a ELSE b
  IN IF memory[layout.words["magic"]] # StatsMagic \/ memory[layout.words["version"]] # StatsVersion
     THEN <<>>
     ELSE [k \in DOMAIN used |->
            [task |-> value(used[k], "task"), polls |-> value(used[k], "polls"),
             recent |-> larger(value(used[k], "peak"), value(used[k], "last_peak"))]]

CountersOf(reading, task) == SelectSeq(reading, LAMBDA c : c.task = task.address)
====
