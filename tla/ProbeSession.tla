----------------------------- MODULE ProbeSession -----------------------------
(***************************************************************************)
(* A session over a debug probe (studio-core/src/session.rs): one thread   *)
(* that opens the target's memory, takes commands, serves tuning requests, *)
(* samples the watches, and reopens the memory or gives the link up when   *)
(* every read fails; and the check it makes before it writes into the      *)
(* target's cells (studio-core/src/tune.rs, Tuner).                        *)
(*                                                                         *)
(* A firmware that serves requests over RTT gets them from RttTuning; here *)
(* stands what that module promises (TuneRequests).  Any other firmware    *)
(* gets its cells written.  An ELF is named by the build it describes.     *)
(* Time counts in units of REOPEN_AFTER, ages stop at LostAfter; at most   *)
(* MaxRound units go by from one sample to the next, the slowest rate's    *)
(* period and the time a round of the loop takes: less than LostAfter, as  *)
(* set_rate allows for no rate below one a second.                         *)
(***************************************************************************)
EXTENDS Integers, Sequences

CONSTANTS
  Sets, Discards, Saves, \* the tuning requests the application makes
  Builds,      \* firmware builds, and the ELFs of them
  HasRtt,      \* the session knows an RTT control block
  LostAfter,   \* LINK_LOST_AFTER
  MaxRound,    \* bound on the time from one sample to the next
  MaxSends,    \* bound on the commands other than requests
  MaxFlaps,    \* bound on the times the target goes away and comes back
  Faults       \* subset of {"glitch", "reflash"}

Requests == Sets \union Discards \union Saves
ReopenAfter == 1

ASSUME ProbeAssumption ==
  /\ HasRtt \in BOOLEAN
  /\ LostAfter \in Nat /\ MaxRound \in 1 .. LostAfter - 1
  /\ Builds # {}
  /\ MaxSends \in Nat /\ MaxFlaps \in Nat
  /\ Faults \subseteq {"glitch", "reflash"}

VARIABLES
  pc,         \* "open", "retry", "drain", "serve", "sample", "poll", "ended"
  rx,         \* the commands sent and not taken yet
  requests,   \* the requests taken and not served yet
  watching,   \* there is a sampler: the watches are not empty
  failing,    \* time since failing_since, -1 for None
  opened,     \* time since the memory was opened, or since the retry began
  tuner,      \* the Tuner: the ELF's build and its CatalogCheck, or NoTuner
  handed,     \* requests with RttTuning
  answers,    \* the replies each request was given (history of the channel)
  outcome,    \* why the session ended
  reachable,  \* the probe reaches the target's memory
  build,      \* the build the target runs
  done,       \* how often each request was carried out (history)
  denied,     \* requests the firmware turned down (history)
  written,    \* writes into cells: the build they were meant for, the build there (history)
  quiet,      \* time since a sample succeeded or the watches changed, and
  reopens,    \* how often the memory was opened since (history)
  sends, flaps

queueVars == <<rx, requests>>
linkVars == <<watching, failing, opened, quiet, reopens>>
tuneVars == <<tuner, written>>
askVars == <<handed, answers, done, denied>>
envVars == <<reachable, build, flaps>>
vars == <<pc, queueVars, linkVars, tuneVars, askVars, outcome, envVars, sends>>

NoTuner == [elf |-> "none", check |-> "none"]

InSeq(r, q) == \E i \in 1 .. Len(q) : q[i] = r

\* Sent, taken or handed on: an answer is still to come.
Waiting(r) ==
  \/ r \in handed \/ InSeq(r, requests)
  \/ \E i \in 1 .. Len(rx) : rx[i].kind = "request" /\ rx[i].request = r

Fresh(r) == answers[r] = <<>> /\ ~Waiting(r)

Answer(r, result) == answers' = [answers EXCEPT ![r] = Append(@, result)]
AnswerAll(S, result) ==
  answers' = [r \in Requests |-> IF r \in S THEN Append(answers[r], result) ELSE answers[r]]

Older(age, d) == IF age = -1 THEN -1 ELSE IF age + d < LostAfter THEN age + d ELSE LostAfter

\* d units of time go by.
Passes(d) ==
  /\ failing' = Older(failing, d)
  /\ opened' = Older(opened, d)
  /\ quiet' = Older(quiet, d)

------------------------------------------------------------------------------
(* The end of the session *)

\* Mutant: the tuning link is left as it is.
Closed_Open == answers

\* framed.close answers what was handed on; the replies to commands that were
\* never served are dropped with their queues.
Closed ==
  [r \in Requests |-> IF r \in handed THEN Append(answers[r], "closed")
                      ELSE IF Waiting(r) THEN Append(answers[r], "dropped")
                      ELSE answers[r]]

Finish(how) ==
  /\ pc' = "ended" /\ outcome' = how
  /\ answers' = Closed
  /\ handed' = {} /\ rx' = <<>> /\ requests' = <<>>

\* Mutant: the memory is opened again as long as that helps nothing.
GivesUp_Never(age) == FALSE

\* Mutant: one failed read too many.
GivesUp_Early(age) == age >= ReopenAfter

\* Every read, or opening the memory, has failed for LINK_LOST_AFTER.
GivesUp(age) == age >= LostAfter

------------------------------------------------------------------------------
(* Commands *)

\* Session::send, while the session lasts.
Send(command) ==
  /\ pc # "ended"
  /\ rx' = Append(rx, command)
  /\ UNCHANGED <<pc, requests, linkVars, tuneVars, askVars, outcome, envVars>>

SendRequest(r) == Fresh(r) /\ Send([kind |-> "request", request |-> r]) /\ UNCHANGED sends

SendOther ==
  /\ sends < MaxSends /\ sends' = sends + 1
  /\ \/ \E on \in BOOLEAN : Send([kind |-> "watches", on |-> on])
     \/ Send([kind |-> "rate"])
     \/ \E b \in Builds \union {"none"} : Send([kind |-> "catalog", elf |-> b])
     \/ Send([kind |-> "stop"])

\* restart_sampler
RestartSampler(on) ==
  /\ watching' = on
  /\ failing' = -1
  /\ quiet' = 0 /\ reopens' = 0
  /\ UNCHANGED opened

\* Mutant: a new catalog keeps the verdict on the old one.
NewTuner_KeepsCheck(elf) ==
  IF elf = "none" THEN NoTuner
  ELSE [elf |-> elf, check |-> IF tuner = NoTuner THEN "checking" ELSE tuner.check]

\* SetCatalog: whether the target runs the build is open again.
NewTuner(elf) == IF elf = "none" THEN NoTuner ELSE [elf |-> elf, check |-> "checking"]

\* apply, in the loop and while the memory would not open.
Take ==
  LET c == Head(rx)
  IN  /\ pc \in {"drain", "retry"} /\ rx # <<>> /\ c.kind # "stop"
      /\ rx' = Tail(rx)
      /\ requests' = IF c.kind = "request" THEN Append(requests, c.request) ELSE requests
      /\ tuner' = IF c.kind = "catalog" THEN NewTuner(c.elf) ELSE tuner
      /\ CASE c.kind = "watches" -> RestartSampler(c.on)
           [] c.kind = "rate" -> RestartSampler(watching)
           [] OTHER -> UNCHANGED linkVars
      /\ UNCHANGED <<pc, written, askVars, outcome, envVars, sends>>

\* Stop: the requests taken before it are not served any more.
TakeStop ==
  /\ pc \in {"drain", "retry"} /\ rx # <<>> /\ Head(rx).kind = "stop"
  /\ Finish("stopped")
  /\ UNCHANGED <<linkVars, tuneVars, done, denied, envVars, sends>>

------------------------------------------------------------------------------
(* Opening the target's memory *)

\* with_memory succeeds: the loop serves it from here on.
Open ==
  /\ pc = "open" /\ reachable
  /\ pc' = "drain"
  /\ opened' = 0 /\ reopens' = IF reopens < 2 THEN reopens + 1 ELSE reopens
  /\ UNCHANGED <<queueVars, watching, failing, quiet, tuneVars, askVars, outcome, envVars, sends>>

\* It fails: the session ends if nothing could be read for too long.
OpenFails ==
  /\ pc = "open" /\ (~reachable \/ "glitch" \in Faults)
  /\ reopens' = IF reopens < 2 THEN reopens + 1 ELSE reopens
  /\ IF GivesUp(failing)
     THEN /\ Finish("lost")
          /\ UNCHANGED <<watching, failing, opened, quiet>>
     ELSE /\ pc' = "retry"
          /\ failing' = IF failing = -1 THEN 0 ELSE failing
          /\ opened' = 0
          /\ UNCHANGED <<queueVars, watching, quiet, handed, answers, outcome>>
  /\ UNCHANGED <<tuneVars, done, denied, envVars, sends>>

\* requests.drain(..): whatever was refused is not served later.
AfterRefusal(queue) == <<>>

\* One round of the wait for the next try: what was asked meanwhile is refused.
Retry(d) ==
  /\ pc = "retry" /\ rx = <<>>
  /\ Passes(d)
  /\ pc' = IF opened' >= ReopenAfter THEN "open" ELSE "retry"
  /\ AnswerAll({r \in Requests : InSeq(r, requests)}, "shut")
  /\ requests' = AfterRefusal(requests)
  /\ UNCHANGED <<rx, watching, reopens, tuneVars, handed, done, denied, outcome, envVars, sends>>

------------------------------------------------------------------------------
(* Tuning *)

\* Tuner::verify: decided once, unless the table could not be read.
Verified ==
  [tuner EXCEPT !.check = IF tuner.check # "checking" \/ ~reachable THEN @
                          ELSE IF build = tuner.elf THEN "matches" ELSE "differs"]

\* The verdict after an attempt to reach one, which may fail.
Verdicts == {Verified} \union IF "glitch" \in Faults THEN {tuner} ELSE {}

\* Tuner::request writes only into a target known to run the ELF.
MayWrite(t) == t.check = "matches"

Drained ==
  /\ pc = "drain" /\ rx = <<>>
  /\ pc' = "serve"
  /\ UNCHANGED <<queueVars, linkVars, tuneVars, askVars, outcome, envVars, sends>>

Served(r) ==
  /\ pc = "serve" /\ requests # <<>> /\ r = Head(requests)
  /\ requests' = Tail(requests)
  /\ UNCHANGED <<pc, rx, linkVars, outcome, envVars, sends, denied>>

\* No ELF with a tuning table is open.
ServeNoTable(r) ==
  /\ Served(r) /\ tuner = NoTuner
  /\ Answer(r, "invalid")
  /\ UNCHANGED <<tuneVars, handed, done>>

\* The firmware's channels are attached: the request goes there, unless its
\* value is not one the ELF allows.
ServeFramed(r) ==
  /\ Served(r) /\ tuner # NoTuner /\ HasRtt
  /\ \/ handed' = handed \union {r} /\ UNCHANGED answers
     \/ r \in Sets /\ Answer(r, "invalid") /\ UNCHANGED handed
  /\ UNCHANGED <<tuneVars, done>>

\* Mutant: discard drops the errors of its writes.
Failed_Ignored(r) == IF r \in Discards THEN "ok" ELSE "error"

\* The first write that fails fails the request.
Failed(r) == "error"

\* They are not, so the cells are written: a Set is one write, a Discard one
\* for each tunable and stops at the first that fails, a Save is refused.
ServeCells(r) ==
  \E t \in Verdicts :
      /\ Served(r) /\ tuner # NoTuner
      /\ tuner' = t
      /\ \/ /\ r \in Saves \/ ~MayWrite(t)
            /\ Answer(r, "invalid")
            /\ UNCHANGED <<done, written>>
         \/ /\ r \notin Saves /\ MayWrite(t) /\ reachable
            /\ Answer(r, "ok")
            /\ done' = [done EXCEPT ![r] = @ + 1]
            /\ written' = written \union {[for |-> t.elf, there |-> build]}
         \/ /\ r \notin Saves /\ MayWrite(t) /\ (~reachable \/ "glitch" \in Faults)
            /\ Answer(r, Failed(r))
            /\ written' \in {written} \union
                 (IF r \in Discards /\ reachable
                  THEN {written \union {[for |-> t.elf, there |-> build]}} ELSE {})
            /\ UNCHANGED done
      /\ UNCHANGED handed

ServeEnds ==
  /\ pc = "serve" /\ requests = <<>>
  /\ pc' = "sample"
  /\ UNCHANGED <<queueVars, linkVars, tuneVars, askVars, outcome, envVars, sends>>

\* RttTuning::poll, as far as TuneRequests tells: the firmware did what it
\* confirms, turned down what it refuses, and may still do what it was too late for.
PollAnswer(r) ==
  /\ pc = "poll" /\ r \in handed
  /\ handed' = handed \ {r}
  /\ \/ done[r] = 1 /\ Answer(r, "ok")
     \/ r \in denied /\ Answer(r, "refused")
     \/ Answer(r, "late")
  /\ UNCHANGED <<pc, queueVars, linkVars, tuneVars, done, denied, outcome, envVars, sends>>

\* report_tune, when its ticker is due, and the round ends.
PollEnds ==
  /\ pc = "poll"
  /\ pc' = "drain"
  /\ tuner' \in {tuner} \union IF tuner = NoTuner THEN {} ELSE Verdicts
  /\ UNCHANGED <<queueVars, linkVars, written, askVars, outcome, envVars, sends>>

------------------------------------------------------------------------------
(* Sampling *)

\* The sampler is not due yet, or there is none; the round took d.
NoSample(d) ==
  /\ pc = "sample" /\ (watching => d = 0)
  /\ pc' = "poll"
  /\ Passes(d)
  /\ UNCHANGED <<queueVars, watching, reopens, tuneVars, askVars, outcome, envVars, sends>>

SampleOk(d) ==
  /\ pc = "sample" /\ watching /\ reachable
  /\ pc' = "poll"
  /\ failing' = -1 /\ opened' = Older(opened, d)
  /\ quiet' = 0 /\ reopens' = 0
  /\ UNCHANGED <<queueVars, watching, tuneVars, askVars, outcome, envVars, sends>>

\* Every read fails.  The session gives up, opens the memory again, or goes on.
SampleFails(d) ==
  LET age == IF failing = -1 THEN 0 ELSE Older(failing, d)
      since == Older(opened, d)
      reopen == age >= ReopenAfter /\ since >= ReopenAfter
  IN  /\ pc = "sample" /\ watching /\ (~reachable \/ "glitch" \in Faults)
      /\ failing' = age /\ opened' = since
      /\ quiet' = Older(quiet, d)
      /\ \/ /\ GivesUp(age)
            /\ Finish("lost")
         \/ /\ ~GivesUp(age)
            /\ pc' = IF reopen THEN "open" ELSE "poll"
            /\ UNCHANGED <<queueVars, handed, answers, outcome>>
      /\ UNCHANGED <<watching, reopens, tuneVars, done, denied, envVars, sends>>

------------------------------------------------------------------------------
(* The target and the firmware (external) *)

TargetMoves ==
  /\ flaps < MaxFlaps /\ flaps' = flaps + 1
  /\ \/ reachable' = ~reachable /\ UNCHANGED build
     \/ "reflash" \in Faults /\ build' \in Builds \ {build} /\ UNCHANGED reachable
  /\ UNCHANGED <<pc, queueVars, linkVars, tuneVars, askVars, outcome, sends>>

\* The firmware carries out a request handed to it, or turns it down.
FirmwareServes(r) ==
  /\ r \in handed \/ InSeq("late", answers[r]) \/ InSeq("closed", answers[r])
  /\ done[r] = 0 /\ r \notin denied
  /\ \/ done' = [done EXCEPT ![r] = 1] /\ UNCHANGED denied
     \/ denied' = denied \union {r} /\ UNCHANGED done
  /\ UNCHANGED <<pc, queueVars, linkVars, tuneVars, handed, answers, outcome, envVars, sends>>

------------------------------------------------------------------------------
\* connect has sent the table of the ELF that is open: here of the build that
\* runs; another one, or none, is sent later.  The builds are alike.
Init ==
  /\ pc = "open" /\ requests = <<>> /\ build = CHOOSE b \in Builds : TRUE
  /\ rx = <<[kind |-> "catalog", elf |-> build]>>
  /\ watching = FALSE /\ failing = -1 /\ opened = 0
  /\ tuner = NoTuner /\ handed = {} /\ outcome = "none"
  /\ answers = [r \in Requests |-> <<>>]
  /\ reachable = TRUE
  /\ done = [r \in Requests |-> 0] /\ denied = {} /\ written = {}
  /\ quiet = 0 /\ reopens = 0 /\ sends = 0 /\ flaps = 0

Rounds == 0 .. MaxRound

Next ==
  \/ \E r \in Requests : SendRequest(r)
  \/ SendOther \/ Take \/ TakeStop
  \/ Open \/ OpenFails \/ \E d \in Rounds : Retry(d)
  \/ Drained \/ ServeEnds \/ PollEnds
  \/ \E r \in Requests :
       ServeNoTable(r) \/ ServeFramed(r) \/ ServeCells(r) \/ PollAnswer(r) \/ FirmwareServes(r)
  \/ \E d \in Rounds : NoSample(d) \/ SampleOk(d) \/ SampleFails(d)
  \/ TargetMoves

Spec == Init /\ [][Next]_vars

\* The thread runs, time goes by, the sampler is due again and again, and
\* RttTuning answers what was handed to it.
Fairness ==
  /\ WF_vars(Take \/ TakeStop) /\ WF_vars(Open \/ OpenFails) /\ WF_vars(Drained)
  /\ WF_vars(\E r \in Requests : ServeNoTable(r) \/ ServeFramed(r) \/ ServeCells(r))
  /\ WF_vars(ServeEnds) /\ WF_vars(PollEnds)
  /\ WF_vars(\E d \in Rounds \ {0} : Retry(d))
  /\ WF_vars(\E d \in Rounds : NoSample(d) \/ SampleOk(d) \/ SampleFails(d))
  /\ SF_vars(\E d \in Rounds \ {0} : SampleOk(d) \/ SampleFails(d))
  /\ \A r \in Requests : SF_vars(PollAnswer(r))

FairSpec == Spec /\ Fairness

------------------------------------------------------------------------------
(* Properties *)

Ages == -1 .. LostAfter

TypeOK ==
  /\ pc \in {"open", "retry", "drain", "serve", "sample", "poll", "ended"}
  /\ \A i \in 1 .. Len(requests) : requests[i] \in Requests
  /\ watching \in BOOLEAN
  /\ failing \in Ages /\ opened \in Ages /\ quiet \in Ages
  /\ tuner.elf \in Builds \union {"none"}
  /\ tuner.check \in {"none", "checking", "matches", "differs"}
  /\ handed \subseteq Requests /\ denied \subseteq Requests
  /\ \A r \in Requests : Len(answers[r]) <= 1 /\ done[r] \in 0 .. 1
  /\ outcome \in {"none", "stopped", "lost"} /\ (outcome = "none" <=> pc # "ended")
  /\ reachable \in BOOLEAN /\ build \in Builds

\* What the asker knows of a request: an error while cells were written, like
\* a time-out, does not tell.
\* No state of the contract allows for a second answer.
Known(r) ==
  IF answers[r] # <<>>
  THEN CASE Len(answers[r]) > 1 -> "answered twice"
         [] Head(answers[r]) = "ok" -> "ok"
         [] Head(answers[r]) \in {"late", "closed", "error"} -> "unknown"
         [] OTHER -> "refused"
  ELSE IF Waiting(r) THEN "waiting" ELSE "idle"

Contract == INSTANCE TuneRequests WITH state <- [r \in Requests |-> Known(r)], done <- done

\* Whichever way a request goes, and whatever becomes of the memory and the
\* session meanwhile, a probe session keeps the contract of tuning requests.
KeepsContract == Contract!Spec

\* Cells are only written in a target that runs the build of the open ELF
\* (FRAME.md: "so a stale ELF cannot aim a write at unrelated memory").
WritesMatch == \A w \in written : w.for = w.there

\* A session gives its link up only when every read failed for as long as
\* LINK_LOST_AFTER says, and not before it opened the memory anew.
LostIsReal == outcome = "lost" => quiet >= LostAfter /\ reopens > 0

\* A target that stays out of reach is noticed, if anything is watched.
NoticesLoss == <>[](~reachable /\ watching) => <>(pc = "ended")

\* Every request sent is answered, or its sender learns that the session is
\* over (the reply channel is dropped).
RequestsAnswered == \A r \in Requests : Waiting(r) ~> answers[r] # <<>>
==============================================================================
