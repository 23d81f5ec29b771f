------------------------------ MODULE Workbench -------------------------------
(***************************************************************************)
(* The VS Code extension as the client of the server: StudioSession        *)
(* (vscode/src/session.ts), which keeps what it believes of the session,   *)
(* and ProbeGuard (probeGuard.ts), which has the probe released before a   *)
(* debug session attaches, and keeps it from being taken meanwhile.        *)
(*                                                                         *)
(* Calls reach the server as they are made; its answers, the status of     *)
(* sessions and the reports of recordings come back over one pipe, in      *)
(* order.  Of the answers only those are modelled that StudioSession acts  *)
(* upon.                                                                   *)
(***************************************************************************)
EXTENDS AppSession

CONSTANTS
  Launches,  \* debug sessions
  OutboxSize \* OUTBOX, messages waiting to be read

ASSUME WorkbenchAssumption == OutboxSize \in Nat \ {0}

VARIABLES
  current,  \* StudioSession.session: the connect it belongs to, and live
  debug,    \* how far each debug session is
  asked,    \* the disconnects made for each debug session's sake
  pipe      \* what the server wrote and the extension has not read

extVars == <<current, debug, asked, pipe>>
vars == <<recorderVars, appVars, extVars>>

Call(c) == MayCall /\ pc[c] = "idle" /\ pc' = [pc EXCEPT ![c] = "called"]

\* One of these calls is made; the server's other state is not touched.
Made(c) == Call(c) /\ UNCHANGED <<slotVars, fileVars, feedVars, appVars>>
Nothing == UNCHANGED <<recorderVars, appVars>>

\* Calls of one kind are alike: any that was not made yet is the next.
NextOf(calls) ==
  LET unmade == {c \in calls : pc[c] = "idle"}
  IN  IF unmade = {} THEN {} ELSE {CHOOSE c \in unmade : TRUE}

\* holdsProbe, blockedBy
HoldsProbe == current.live /\ current.id \in Probes
Blocked == \E g \in Launches : debug[g] \in {"releasing", "resolved", "running"}

-----------------------------------------------------------------------------
(* StudioSession *)

\* call("session_connect"): refused while a session is live or a debugger has the probe.
ClientConnect(c) ==
  /\ ~current.live /\ (c \in Probes => ~Blocked)
  /\ Made(c)
  /\ current' = [id |-> c, live |-> TRUE]
  /\ UNCHANGED <<debug, asked, pipe>>

\* call("open_elf"), refused while one is live; and the calls that are passed on.
ClientOpen(o) == ~current.live /\ Made(o) /\ UNCHANGED extVars
ClientOther(c) == Made(c) /\ UNCHANGED extVars

\* The status of the session it knows, the answer to a disconnect, whoever it
\* was made for, and the failure of a connect.
Read ==
  /\ pipe # <<>> /\ pipe' = Tail(pipe)
  /\ LET m == Head(pipe)
         mine == m.what = "returned" \/ m.id = current.id
     IN  /\ current' = IF mine THEN [current EXCEPT !.live = m.live] ELSE current
         /\ debug' = [g \in Launches |-> IF debug[g] = "releasing" /\ m.id \in asked[g]
                                         THEN "resolved" ELSE debug[g]]
  /\ Nothing /\ UNCHANGED asked
-----------------------------------------------------------------------------
(* ProbeGuard *)

Debug(g, from, to) == debug[g] = from /\ debug' = [debug EXCEPT ![g] = to]

\* release: a disconnect if the probe is held.
Release(g, d) ==
  /\ HoldsProbe /\ Made(d)
  /\ asked' = [asked EXCEPT ![g] = @ \union {d}]

NoRelease == ~HoldsProbe /\ Nothing /\ UNCHANGED asked

\* A launch is resolved: VS Code waits for the release before the adapter starts.
Resolves(g) ==
  /\ \/ Debug(g, "idle", "releasing") /\ \E d \in NextOf(Disconnects) : Release(g, d)
     \/ Debug(g, "idle", "resolved") /\ NoRelease
  /\ UNCHANGED <<current, pipe>>

\* It starts, resolved or not: released again, and not waited for.
Starts(g) ==
  /\ Debug(g, "resolved", "running") \/ Debug(g, "idle", "running")
  /\ NoRelease \/ \E d \in NextOf(Disconnects) : Release(g, d)
  /\ UNCHANGED <<current, pipe>>

\* It ends, or never starts until PENDING_TIMEOUT_MS have passed.
Terminates(g) ==
  /\ Debug(g, "running", "over") \/ Debug(g, "resolved", "over")
  /\ Nothing /\ UNCHANGED <<current, asked, pipe>>
-----------------------------------------------------------------------------
(* The server, and what it writes, as soon as there is room in its outbox *)

Statuses == {[what |-> "status", id |-> c, live |-> session'[c] # "over"] :
               c \in {s \in Connects : session'[s] # session[s] /\ session'[s] # "spawned"}}
Answers == {[what |-> "returned", id |-> d, live |-> FALSE] :
               d \in {e \in Disconnects : pc'[e] = "done" /\ pc[e] # "done"}}
Failures == {[what |-> "failed", id |-> c, live |-> FALSE] :
               c \in {d \in Connects : pc'[d] = "refused" /\ pc[d] # "refused"}}

Reports == {[what |-> "recording", id |-> r, live |-> writer'[r] = "records"] :
               r \in {s \in Recordings : writer'[s] \notin {writer[s], "drains"}}}

Serve(A) ==
  /\ A
  /\ LET news == Statuses \union Answers \union Failures \union Reports
     IN  \/ news = {} /\ UNCHANGED pipe
         \/ /\ news # {} /\ Len(pipe) < OutboxSize
            /\ pipe' = Append(pipe, CHOOSE m \in news : TRUE)
  /\ UNCHANGED <<current, debug, asked>>

Init ==
  /\ AppInit
  /\ current = [id |-> None, live |-> FALSE]
  /\ debug = [g \in Launches |-> "idle"] /\ asked = [g \in Launches |-> {}]
  /\ pipe = <<>>

Next ==
  \/ \E c \in NextOf(Probes) \union NextOf(Serials) : ClientConnect(c)
  \/ \E o \in NextOf(Opens) : ClientOpen(o)
  \/ \E calls \in {Recordings, StopCalls, Disconnects} : \E c \in NextOf(calls) : ClientOther(c)
  \/ Read
  \/ \E g \in Launches : Resolves(g) \/ Starts(g) \/ Terminates(g)
  \/ Serve(AppNext)

Spec == Init /\ [][Next]_vars

\* Every thread goes on, a session that opens gets its link or fails, what the
\* server writes is read.  Nobody has to call, to sample or to fail.
Fairness ==
  /\ \A c \in Calls : WF_vars(Serve(CallStep(c)))
  /\ WF_vars(Serve(Resolve)) /\ WF_vars(Serve(GiveItems))
  /\ \A c \in Connects : WF_vars(Serve(SessionStep(c)))
  /\ \A r \in Recordings : WF_vars(Serve(RecorderThread(r) /\ UNCHANGED appVars))
  /\ WF_vars(Read)

FairSpec == Spec /\ Fairness

-----------------------------------------------------------------------------
TypeOK ==
  /\ AppTypeOK
  /\ current \in [id : Connects \union {None}, live : BOOLEAN]
  /\ debug \in [Launches -> {"idle", "releasing", "resolved", "running", "over"}]
  /\ \A g \in Launches : asked[g] \subseteq Disconnects

\* Every call returns, whatever others do meanwhile (threads that join sessions
\* and recorders, some with a lock held), and so does a launch that waits for
\* the probe's release.  As finitely many calls are made, this is to say that
\* none is left under way.
CallsReturn == <>[](Quiet /\ \A g \in Launches : debug[g] # "releasing")

\* probeGuard.ts: "Resolution runs before the adapter starts and VS Code waits
\* for it: the probe is free by then".
ProbeFree ==
  \A g \in Launches : debug[g] = "resolved" => Running \intersect Probes = {}
==============================================================================
