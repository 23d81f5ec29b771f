-------------------------- MODULE ProbeSessionProofs --------------------------
(***************************************************************************)
(* A probe session, for any set of requests, builds and times: it gives    *)
(* its link up for a reason, writes cells only in a target that runs the   *)
(* build of the ELF, unless that is replaced meanwhile, and implements the *)
(* contract of tuning requests (TuneRequests).                             *)
(***************************************************************************)
EXTENDS ProbeSession, TLAPS

States == {"open", "retry", "drain", "serve", "sample", "poll", "ended"}
Checks == {"none", "checking", "matches", "differs"}
Commands ==
  [kind : {"request"}, request : Requests] \union [kind : {"watches"}, on : BOOLEAN]
  \union [kind : {"rate"}] \union [kind : {"catalog"}, elf : Builds \union {"none"}]
  \union [kind : {"stop"}]

Tuners == [elf : Builds \union {"none"}, check : Checks]

Types ==
  /\ pc \in States /\ rx \in Seq(Commands) /\ requests \in Seq(Requests)
  /\ watching \in BOOLEAN
  /\ failing \in Ages /\ opened \in 0 .. LostAfter /\ quiet \in 0 .. LostAfter /\ reopens \in 0 .. 2
  /\ tuner \in Tuners
  /\ handed \subseteq Requests /\ denied \subseteq Requests
  /\ done \in [Requests -> Nat]
  /\ outcome \in {"none", "stopped", "lost"} /\ (outcome = "none" <=> pc # "ended")
  /\ reachable \in BOOLEAN /\ build \in Builds

------------------------------------------------------------------------------
(* What the steps do, as far as the properties go *)

\* A command that is not a stop, one kind after the other.
LEMMA TakeIs ==
  ASSUME NEW c, c = Head(rx), Take
  PROVE  /\ c.kind = "watches" => RestartSampler(c.on)
         /\ c.kind = "rate" => RestartSampler(watching)
         /\ c.kind \notin {"watches", "rate"} => UNCHANGED linkVars
  <1>1. CASE c.kind = "watches"
    BY <1>1, Zenon DEF Take
  <1>2. CASE c.kind = "rate"
    BY <1>2, Zenon DEF Take
  <1>3. CASE c.kind \notin {"watches", "rate"}
    BY <1>3, Zenon DEF Take
  <1> QED
    BY <1>1, <1>2, <1>3

LEMMA OlderType ==
  ASSUME NEW age \in 0 .. LostAfter, NEW d \in Rounds
  PROVE  /\ Older(age, d) \in 0 .. LostAfter /\ Older(age, d) >= age
         /\ Older(age, d) >= d \/ Older(age, d) = LostAfter
         /\ d = 0 => Older(age, d) = age
  BY ProbeAssumption DEF Older, Rounds

LEMMA OlderMonotone ==
  ASSUME NEW age \in Ages, NEW since \in 0 .. LostAfter, age <= since, NEW d \in Rounds
  PROVE  Older(age, d) \in Ages /\ Older(age, d) <= Older(since, d)
  BY ProbeAssumption DEF Older, Rounds, Ages

LEMMA VerdictTypes ==
  ASSUME Types, NEW t \in Verdicts
  PROVE  t \in Tuners
  <1>1. Verified \in Tuners
    BY DEF Types, Verified, Tuners, Checks
  <1> QED
    BY <1>1 DEF Verdicts, Types

LEMMA TakeTypes ==
  ASSUME Types, Take
  PROVE  Types'
  <1> PICK c \in Commands : c = Head(rx)
    BY DEF Take, Types
  <1>1. /\ rx' = Tail(rx) /\ rx # <<>>
        /\ requests' = IF c.kind = "request" THEN Append(requests, c.request) ELSE requests
        /\ tuner' = IF c.kind = "catalog" THEN NewTuner(c.elf) ELSE tuner
        /\ UNCHANGED <<pc, handed, denied, done, outcome, reachable, build>>
    BY DEF Take, askVars, envVars
  <1>2. rx' \in Seq(Commands)
    BY <1>1 DEF Types
  <1>3. requests' \in Seq(Requests)
    <2>1. c.kind = "request" => c.request \in Requests
      BY DEF Commands
    <2> QED
      BY <1>1, <2>1 DEF Types
  <1>4. tuner' \in Tuners
    <2>1. c.kind = "catalog" => c.elf \in Builds \union {"none"}
      BY DEF Commands
    <2> QED
      BY <1>1, <2>1 DEF Types, NewTuner, NoTuner, Tuners, Checks
  <1>5. /\ watching' \in BOOLEAN /\ failing' \in Ages /\ opened' \in 0 .. LostAfter
        /\ quiet' \in 0 .. LostAfter /\ reopens' \in 0 .. 2
    <2>1. c.kind = "watches" => c.on \in BOOLEAN
      BY DEF Commands
    <2>2. CASE c.kind = "watches"
      BY <2>1, <2>2, TakeIs, ProbeAssumption DEF RestartSampler, Types, Ages
    <2>3. CASE c.kind = "rate"
      BY <2>3, TakeIs, ProbeAssumption DEF RestartSampler, Types, Ages
    <2>4. CASE c.kind \notin {"watches", "rate"}
      BY <2>4, TakeIs DEF linkVars, Types
    <2> QED
      BY <2>2, <2>3, <2>4
  <1> QED
    BY <1>1, <1>2, <1>3, <1>4, <1>5 DEF Types

LEMMA FinishTypes ==
  ASSUME Types, NEW how \in {"stopped", "lost"}, Finish(how), UNCHANGED <<watching, tuner, denied, done, envVars>>,
         failing' \in Ages, opened' \in 0 .. LostAfter, quiet' \in 0 .. LostAfter, reopens' \in 0 .. 2
  PROVE  Types'
  <1>1. <<>> \in Seq(Commands) /\ <<>> \in Seq(Requests)
    OBVIOUS
  <1> QED
    BY <1>1 DEF Types, Finish, States, envVars

LEMMA StepTypes ==
  ASSUME Types, [Next]_vars
  PROVE  Types'
  <1>0. Ages = -1 .. LostAfter /\ LostAfter \in Nat /\ Rounds \subseteq Nat /\ Ages \subseteq Int
    BY ProbeAssumption DEF Ages, Rounds
  <1>1. ASSUME NEW c \in Commands, Send(c) PROVE Types'
    BY <1>1 DEF Types, Send, linkVars, tuneVars, askVars, envVars
  <1>2. ASSUME NEW r \in Requests, SendRequest(r) PROVE Types'
    <2>1. [kind |-> "request", request |-> r] \in Commands
      BY DEF Commands
    <2> QED
      BY <1>1, <1>2, <2>1 DEF SendRequest
  <1>3. CASE SendOther
    <2>1. /\ \A on \in BOOLEAN : [kind |-> "watches", on |-> on] \in Commands
          /\ [kind |-> "rate"] \in Commands /\ [kind |-> "stop"] \in Commands
          /\ \A b \in Builds \union {"none"} : [kind |-> "catalog", elf |-> b] \in Commands
      BY DEF Commands
    <2> QED
      BY <1>1, <1>3, <2>1 DEF SendOther
  <1>4. CASE Take
    BY <1>4, TakeTypes
  <1>5. CASE TakeStop
    BY <1>5, FinishTypes DEF TakeStop, linkVars, tuneVars, Types
  <1>6. CASE Open
    BY <1>0, <1>6 DEF Open, Types, States, queueVars, tuneVars, askVars, envVars
  <1>7. CASE OpenFails
    <2>1. reopens' \in 0 .. 2 /\ UNCHANGED <<watching, quiet, tuner, denied, done, envVars>>
      BY <1>7 DEF OpenFails, tuneVars, Types
    <2>2. CASE GivesUp(failing)
      BY <1>7, <2>1, <2>2, FinishTypes DEF OpenFails, Types
    <2>3. CASE ~GivesUp(failing)
      BY <1>0, <1>7, <2>1, <2>3 DEF OpenFails, Types, States, queueVars, envVars
    <2> QED
      BY <2>2, <2>3
  <1>8. ASSUME NEW d \in Rounds, Passes(d)
        PROVE  failing' \in Ages /\ opened' \in 0 .. LostAfter /\ quiet' \in 0 .. LostAfter
    <2>1. opened' \in 0 .. LostAfter /\ quiet' \in 0 .. LostAfter
      BY <1>8, OlderType DEF Passes, Types
    <2>2. failing' \in Ages
      BY <1>0, <1>8, OlderType DEF Passes, Types, Older
    <2> QED
      BY <2>1, <2>2
  <1>9. ASSUME NEW d \in Rounds, Retry(d) PROVE Types'
    BY <1>8, <1>9 DEF Retry, Types, States, AfterRefusal, tuneVars, envVars
  <1>10. CASE Drained \/ ServeEnds
    BY <1>10 DEF Drained, ServeEnds, Types, States, queueVars, linkVars, tuneVars, askVars, envVars
  <1>11. CASE PollEnds
    BY <1>11, VerdictTypes DEF PollEnds, Types, States, queueVars, linkVars, askVars, envVars
  <1>12. ASSUME NEW r \in Requests, Served(r)
         PROVE  /\ requests' \in Seq(Requests)
                /\ UNCHANGED <<pc, rx, watching, failing, opened, quiet, reopens, outcome, reachable, build, denied>>
    BY <1>12 DEF Served, Types, linkVars, envVars
  <1>13. ASSUME NEW r \in Requests, ServeNoTable(r) PROVE Types'
    BY <1>12, <1>13 DEF ServeNoTable, Types, tuneVars
  <1>14. ASSUME NEW r \in Requests, ServeFramed(r) PROVE Types'
    BY <1>12, <1>14 DEF ServeFramed, Types, tuneVars
  <1>15. ASSUME NEW r \in Requests, ServeCells(r) PROVE Types'
    <2>1. PICK t \in Verdicts :
            /\ Served(r) /\ tuner' = t /\ handed' = handed
            /\ done' = done \/ done' = [done EXCEPT ![r] = @ + 1]
      BY <1>15 DEF ServeCells
    <2> QED
      BY <1>12, <2>1, VerdictTypes DEF Types
  <1>16. ASSUME NEW r \in Requests, PollAnswer(r) PROVE Types'
    BY <1>16 DEF PollAnswer, Types, queueVars, linkVars, tuneVars, envVars
  <1>17. ASSUME NEW r \in Requests, FirmwareServes(r) PROVE Types'
    BY <1>17 DEF FirmwareServes, Types, queueVars, linkVars, tuneVars, envVars
  <1>18. ASSUME NEW d \in Rounds, NoSample(d) PROVE Types'
    BY <1>8, <1>18 DEF NoSample, Types, States, queueVars, tuneVars, askVars, envVars
  <1>19. ASSUME NEW d \in Rounds, SampleOk(d) PROVE Types'
    BY <1>0, <1>19, OlderType DEF SampleOk, Types, States, queueVars, tuneVars, askVars, envVars
  <1>20. ASSUME NEW d \in Rounds, SampleFails(d) PROVE Types'
    <2>1. /\ failing' \in Ages /\ opened' \in 0 .. LostAfter /\ quiet' \in 0 .. LostAfter
          /\ UNCHANGED <<watching, reopens, tuner, denied, done, envVars>>
      BY <1>0, <1>20, OlderType DEF SampleFails, Types, Older, tuneVars
    <2>2. CASE Finish("lost")
      BY <2>1, <2>2, FinishTypes DEF Types
    <2>3. CASE pc' \in {"open", "poll"} /\ UNCHANGED <<queueVars, handed, answers, outcome>> /\ pc = "sample"
      BY <2>1, <2>3 DEF Types, States, queueVars, envVars
    <2> QED
      BY <1>20, <2>2, <2>3 DEF SampleFails
  <1>21. CASE TargetMoves
    BY <1>21 DEF TargetMoves, Types, queueVars, linkVars, tuneVars, askVars
  <1>22. CASE UNCHANGED vars
    BY <1>22 DEF vars, Types, queueVars, linkVars, tuneVars, askVars, envVars
  <1> QED
    BY <1>2, <1>3, <1>4, <1>5, <1>6, <1>7, <1>9, <1>10, <1>11, <1>13, <1>14, <1>15, <1>16, <1>17,
       <1>18, <1>19, <1>20, <1>21, <1>22 DEF Next

LEMMA InitTypes == Init => Types
  <1> SUFFICES ASSUME Init PROVE Types
    OBVIOUS
  <1>1. build \in Builds
    BY ProbeAssumption DEF Init
  <1>2. [kind |-> "catalog", elf |-> build] \in Commands
    BY <1>1 DEF Commands
  <1>3. rx \in Seq(Commands) /\ requests \in Seq(Requests)
    BY <1>2 DEF Init
  <1>4. tuner \in Tuners
    BY DEF Init, NoTuner, Tuners, Checks
  <1>5. /\ pc \in States /\ outcome = "none" /\ pc # "ended" /\ handed = {} /\ denied = {}
        /\ done \in [Requests -> Nat] /\ watching \in BOOLEAN /\ reachable \in BOOLEAN
    BY DEF Init, States
  <1>6. failing \in Ages /\ opened \in 0 .. LostAfter /\ quiet \in 0 .. LostAfter /\ reopens \in 0 .. 2
    BY ProbeAssumption DEF Init, Ages
  <1> QED
    BY <1>1, <1>3, <1>4, <1>5, <1>6 DEF Types

------------------------------------------------------------------------------
(* Writes into cells *)

\* Nobody flashes another build while the session lasts.
NoReflash == "reflash" \notin Faults

\* The verdict on the target is true as long as its build does not change.
VerdictTrue ==
  /\ tuner.check = "matches" => tuner.elf = build
  /\ WritesMatch

LEMMA VerdictsTrue ==
  ASSUME Types, VerdictTrue, NEW t \in Verdicts
  PROVE  t.check = "matches" => t.elf = build
  <1>1. Verified.elf = tuner.elf /\ (Verified.check = "matches" => tuner.check = "matches" \/ build = tuner.elf)
    BY DEF Verified, Types, Tuners
  <1> QED
    BY <1>1 DEF Verdicts, VerdictTrue

LEMMA StepVerdict ==
  ASSUME NoReflash, Types, VerdictTrue, [Next]_vars
  PROVE  VerdictTrue'
  <1>0. ASSUME UNCHANGED <<tuner, written, build>> PROVE VerdictTrue'
    BY <1>0 DEF VerdictTrue, WritesMatch
  <1>1. CASE Take
    <2>1. /\ tuner' = tuner \/ \E e : tuner' = NewTuner(e)
          /\ UNCHANGED <<written, build>>
      BY <1>1 DEF Take, envVars
    <2>2. \A e : NewTuner(e).check # "matches"
      BY DEF NewTuner, NoTuner
    <2> QED
      BY <2>1, <2>2 DEF VerdictTrue, WritesMatch
  <1>2. CASE PollEnds
    <2>1. tuner' \in {tuner} \union Verdicts /\ UNCHANGED <<written, build>>
      BY <1>2 DEF PollEnds, envVars
    <2> QED
      BY <2>1, VerdictsTrue DEF VerdictTrue, WritesMatch
  <1>3. ASSUME NEW r \in Requests, ServeCells(r) PROVE VerdictTrue'
    <2>1. PICK t \in Verdicts :
            /\ tuner' = t /\ build' = build
            /\ \/ written' = written
               \/ MayWrite(t) /\ written' = written \union {[for |-> t.elf, there |-> build]}
      BY <1>3 DEF ServeCells, Served, envVars
    <2>2. t.check = "matches" => t.elf = build
      BY VerdictsTrue
    <2> QED
      BY <2>1, <2>2 DEF VerdictTrue, WritesMatch, MayWrite
  <1>4. CASE TargetMoves
    BY <1>0, <1>4 DEF TargetMoves, NoReflash, tuneVars
  <1>5. CASE \/ \E r \in Requests : SendRequest(r) \/ ServeNoTable(r) \/ ServeFramed(r)
                                    \/ PollAnswer(r) \/ FirmwareServes(r)
             \/ SendOther \/ TakeStop \/ Open \/ OpenFails \/ Drained \/ ServeEnds
             \/ \E d \in Rounds : Retry(d) \/ NoSample(d) \/ SampleOk(d) \/ SampleFails(d)
             \/ UNCHANGED vars
    BY <1>0, <1>5 DEF SendRequest, SendOther, Send, ServeNoTable, ServeFramed, Served, PollAnswer, FirmwareServes,
       TakeStop, Open, OpenFails, Drained, ServeEnds, Retry, NoSample, SampleOk, SampleFails, vars,
       tuneVars, envVars
  <1> QED
    BY <1>1, <1>2, <1>3, <1>4, <1>5 DEF Next

\* Unless the target is reflashed while the session lasts, cells are only
\* written in a target that runs the build of the open ELF.
THEOREM WritesWhereVerified ==
  ASSUME NoReflash
  PROVE  Spec => []WritesMatch
  <1>1. Init => VerdictTrue
    BY DEF Init, VerdictTrue, WritesMatch, NoTuner
  <1>2. VerdictTrue => WritesMatch
    BY DEF VerdictTrue
  <1> QED
    BY <1>1, <1>2, InitTypes, StepTypes, StepVerdict, PTL DEF Spec

------------------------------------------------------------------------------
(* When the link is given up *)

\* The reads have failed no longer than nothing was read; before the memory has
\* been opened anew, no more than one read has failed.
Aging ==
  /\ failing <= quiet
  /\ reopens = 0 /\ pc # "open" => failing <= 0
  /\ reopens = 0 /\ pc = "retry" => failing = -1
  /\ reopens = 0 /\ failing >= 0 => watching
  /\ LostIsReal

LEMMA StepAging ==
  ASSUME Types, Aging, [Next]_vars
  PROVE  Aging'
  <1>0. /\ LostAfter \in Nat /\ MaxRound \in Nat /\ MaxRound < LostAfter /\ Rounds = 0 .. MaxRound
        /\ failing \in -1 .. LostAfter /\ opened \in 0 .. LostAfter /\ quiet \in 0 .. LostAfter /\ reopens \in 0 .. 2
        /\ outcome = "lost" <=> pc = "ended" /\ outcome # "stopped"
    BY ProbeAssumption DEF Types, Ages, Rounds
  <1>1. ASSUME UNCHANGED <<linkVars, outcome>>, pc' \in {pc, "serve", "drain", "sample", "poll"}, pc # "open" \/ pc' = pc
        PROVE  Aging'
    BY <1>1 DEF Aging, LostIsReal, linkVars
  <1>2. CASE Take
    <2> PICK c : c = Head(rx)
      OBVIOUS
    <2>1. UNCHANGED <<pc, outcome>> /\ pc \in {"drain", "retry"}
      BY <1>2 DEF Take
    <2>2. CASE \E on : RestartSampler(on)
      BY <1>0, <2>1, <2>2 DEF Aging, LostIsReal, RestartSampler
    <2>3. CASE UNCHANGED linkVars
      BY <1>1, <2>1, <2>3
    <2> QED
      BY <1>2, <2>2, <2>3, TakeIs
  <1>3. CASE TakeStop
    BY <1>3 DEF TakeStop, Finish, Aging, LostIsReal, linkVars
  <1>4. CASE Open
    BY <1>0, <1>4 DEF Open, Aging, LostIsReal
  <1>5. CASE OpenFails
    <2>1. reopens' > 0 /\ quiet' = quiet
      BY <1>0, <1>5 DEF OpenFails
    <2>2. CASE GivesUp(failing)
      BY <1>0, <1>5, <2>1, <2>2 DEF OpenFails, GivesUp, Aging, LostIsReal
    <2>3. CASE ~GivesUp(failing)
      BY <1>0, <1>5, <2>1, <2>3 DEF OpenFails, Aging, LostIsReal
    <2> QED
      BY <2>2, <2>3
  <1>6. ASSUME NEW d \in Rounds, Passes(d)
        PROVE  /\ failing' <= quiet' /\ quiet' >= quiet
               /\ failing = -1 => failing' = -1
               /\ d = 0 => failing' = failing
    <2>1. failing' = Older(failing, d) /\ quiet' = Older(quiet, d)
      BY <1>6 DEF Passes
    <2>2. quiet' >= quiet
      BY <2>1, OlderType DEF Types
    <2>3. failing' <= quiet'
      BY <2>1, OlderMonotone DEF Types, Aging
    <2> QED
      BY <1>0, <2>1, <2>2, <2>3 DEF Older
  <1>7. ASSUME NEW d \in Rounds, Retry(d) PROVE Aging'
    <2>1. /\ UNCHANGED <<watching, reopens, outcome>> /\ pc = "retry" /\ pc' \in {"open", "retry"}
          /\ failing' <= quiet' /\ quiet' >= quiet /\ (failing = -1 => failing' = -1)
      BY <1>6, <1>7 DEF Retry
    <2> QED
      BY <1>0, <2>1 DEF Aging, LostIsReal
  <1>8. ASSUME NEW d \in Rounds, NoSample(d) PROVE Aging'
    <2>1. /\ UNCHANGED <<watching, reopens, outcome>> /\ pc = "sample" /\ pc' = "poll" /\ (watching => d = 0)
          /\ failing' <= quiet' /\ quiet' >= quiet /\ (failing = -1 => failing' = -1)
          /\ d = 0 => failing' = failing
      BY <1>6, <1>8 DEF NoSample
    <2> QED
      BY <1>0, <2>1 DEF Aging, LostIsReal
  <1>9. ASSUME NEW d \in Rounds, SampleOk(d) PROVE Aging'
    BY <1>0, <1>9 DEF SampleOk, Aging, LostIsReal
  <1>10. ASSUME NEW d \in Rounds, SampleFails(d) PROVE Aging'
    <2> DEFINE age == IF failing = -1 THEN 0 ELSE Older(failing, d)
               since == Older(opened, d)
    <2>1. /\ pc = "sample" /\ watching /\ failing' = age /\ quiet' = Older(quiet, d)
          /\ \/ GivesUp(age) /\ Finish("lost")
             \/ /\ ~GivesUp(age) /\ UNCHANGED outcome
                /\ pc' = IF age >= ReopenAfter /\ since >= ReopenAfter THEN "open" ELSE "poll"
          /\ UNCHANGED <<watching, reopens>>
      BY <1>10 DEF SampleFails
    <2>2. age \in 0 .. LostAfter /\ age <= quiet' /\ quiet' \in 0 .. LostAfter /\ since \in 0 .. LostAfter
      <3>1. Older(failing, d) \in Ages /\ Older(failing, d) <= quiet' /\ quiet' \in 0 .. LostAfter
            /\ since \in 0 .. LostAfter
        BY <2>1, OlderType, OlderMonotone DEF Types, Aging
      <3>2. failing # -1 => Older(failing, d) >= 0
        BY <1>0, OlderType
      <3> QED
        BY <1>0, <3>1, <3>2 DEF Ages
    <2>3. reopens = 0 => age <= d /\ (age >= 1 => since >= 1)
      BY <1>0, <2>1, OlderType DEF Aging, Older
    <2> HIDE DEF age, since
    <2>4. CASE GivesUp(age) /\ Finish("lost")
      BY <1>0, <2>1, <2>2, <2>3, <2>4 DEF GivesUp, Finish, Aging, LostIsReal
    <2>5. CASE /\ ~GivesUp(age) /\ UNCHANGED outcome
               /\ pc' = IF age >= ReopenAfter /\ since >= ReopenAfter THEN "open" ELSE "poll"
      BY <1>0, <2>1, <2>2, <2>3, <2>5 DEF ReopenAfter, Aging, LostIsReal
    <2> QED
      BY <2>1, <2>4, <2>5
  <1>11. CASE \/ SendOther \/ Drained \/ ServeEnds \/ PollEnds \/ TargetMoves
              \/ \E r \in Requests : SendRequest(r) \/ ServeNoTable(r) \/ ServeFramed(r) \/ ServeCells(r)
                                     \/ PollAnswer(r) \/ FirmwareServes(r)
              \/ UNCHANGED vars
    BY <1>1, <1>11 DEF SendOther, SendRequest, Send, Drained, ServeEnds, PollEnds, TargetMoves, ServeNoTable,
       ServeFramed, ServeCells, Served, PollAnswer, FirmwareServes, vars
  <1> QED
    BY <1>2, <1>3, <1>4, <1>5, <1>7, <1>8, <1>9, <1>10, <1>11 DEF Next

\* A session gives its link up only when every read has failed for as long as
\* LINK_LOST_AFTER says, and not before it opened the memory anew.
THEOREM LostForGood == Spec => []LostIsReal
  <1>1. Init => Aging
    BY ProbeAssumption DEF Init, Aging, LostIsReal
  <1>2. Aging => LostIsReal
    BY DEF Aging
  <1> QED
    BY <1>1, <1>2, InitTypes, StepTypes, StepAging, PTL DEF Spec

------------------------------------------------------------------------------
(* Where a request is *)

Asks(c, r) == c.kind = "request" /\ c.request = r
Queued(q, r) == \E i \in 1 .. Len(q) : Asks(q[i], r)

\* No request is in a queue twice.
QueuedOnce(q) == \A r \in Requests : \A i, j \in 1 .. Len(q) : Asks(q[i], r) /\ Asks(q[j], r) => i = j
Once(q) == \A i, j \in 1 .. Len(q) : q[i] = q[j] => i = j

LEMMA QueuedAppend ==
  ASSUME NEW q \in Seq(Commands), NEW c \in Commands, QueuedOnce(q),
         \A r \in Requests : Asks(c, r) => ~Queued(q, r)
  PROVE  /\ QueuedOnce(Append(q, c))
         /\ \A r \in Requests : Queued(Append(q, c), r) <=> Queued(q, r) \/ Asks(c, r)
  <1> DEFINE p == Append(q, c)
             n == Len(q)
  <1>1. /\ n \in Nat /\ Len(p) = n + 1 /\ p[n + 1] = c /\ \A i \in 1 .. n : p[i] = q[i]
        /\ \A i : i \in 1 .. n + 1 <=> i \in 1 .. n \/ i = n + 1
    OBVIOUS
  <1> HIDE DEF p
  <1>2. \A r \in Requests : Queued(p, r) <=> Queued(q, r) \/ Asks(c, r)
    BY <1>1 DEF Queued
  <1>3. ASSUME NEW r \in Requests, NEW i \in 1 .. Len(p), NEW j \in 1 .. Len(p), Asks(p[i], r), Asks(p[j], r)
        PROVE  i = j
    BY <1>1, <1>3 DEF Queued, QueuedOnce
  <1> QED
    BY <1>2, <1>3 DEF QueuedOnce, p

LEMMA QueuedTail ==
  ASSUME NEW q \in Seq(Commands), q # <<>>, QueuedOnce(q)
  PROVE  /\ QueuedOnce(Tail(q))
         /\ \A r \in Requests :
              /\ Queued(q, r) <=> Asks(Head(q), r) \/ Queued(Tail(q), r)
              /\ Asks(Head(q), r) => ~Queued(Tail(q), r)
  <1> DEFINE t == Tail(q)
             n == Len(t)
  <1>1. /\ n \in Nat /\ Len(q) = n + 1 /\ q[1] = Head(q)
        /\ \A i \in 1 .. n : t[i] = q[i + 1] /\ i + 1 \in 1 .. Len(q) /\ i + 1 # 1
        /\ \A i \in 1 .. Len(q) : i = 1 \/ (i - 1 \in 1 .. n /\ (i - 1) + 1 = i)
        /\ 1 \in 1 .. Len(q)
    OBVIOUS
  <1> HIDE DEF t
  <1>2. ASSUME NEW r \in Requests
        PROVE  /\ Queued(q, r) <=> Asks(Head(q), r) \/ Queued(t, r)
               /\ Asks(Head(q), r) => ~Queued(t, r)
    <2>1. ASSUME NEW i \in 1 .. Len(q), Asks(q[i], r) PROVE Asks(Head(q), r) \/ Queued(t, r)
      <3>1. CASE i = 1
        BY <1>1, <2>1, <3>1
      <3>2. CASE i # 1
        <4>1. i - 1 \in 1 .. n /\ t[i - 1] = q[i]
          BY <1>1, <3>2
        <4> QED
          BY <2>1, <4>1 DEF Queued
      <3> QED
        BY <3>1, <3>2
    <2>2. Asks(Head(q), r) => Queued(q, r)
      BY <1>1 DEF Queued
    <2>3. ASSUME NEW i \in 1 .. n, Asks(t[i], r) PROVE Queued(q, r) /\ ~Asks(Head(q), r)
      <3>1. i + 1 \in 1 .. Len(q) /\ Asks(q[i + 1], r) /\ i + 1 # 1
        BY <1>1, <2>3
      <3> QED
        BY <1>1, <3>1 DEF Queued, QueuedOnce
    <2> QED
      BY <2>1, <2>2, <2>3 DEF Queued
  <1>3. ASSUME NEW r \in Requests, NEW i \in 1 .. n, NEW j \in 1 .. n, Asks(t[i], r), Asks(t[j], r)
        PROVE  i = j
    <2>1. /\ i + 1 \in 1 .. Len(q) /\ Asks(q[i + 1], r)
          /\ j + 1 \in 1 .. Len(q) /\ Asks(q[j + 1], r)
      BY <1>1, <1>3
    <2>2. i + 1 = j + 1
      BY <2>1 DEF QueuedOnce
    <2> QED
      BY <1>1, <2>2
  <1> QED
    BY <1>2, <1>3 DEF QueuedOnce, t

LEMMA OnceAppend ==
  ASSUME NEW q \in Seq(Requests), NEW x \in Requests, Once(q), ~InSeq(x, q)
  PROVE  /\ Once(Append(q, x))
         /\ \A r : InSeq(r, Append(q, x)) <=> InSeq(r, q) \/ r = x
  <1> DEFINE p == Append(q, x)
             n == Len(q)
  <1>1. /\ n \in Nat /\ Len(p) = n + 1 /\ p[n + 1] = x /\ \A i \in 1 .. n : p[i] = q[i]
        /\ \A i : i \in 1 .. n + 1 <=> i \in 1 .. n \/ i = n + 1
    OBVIOUS
  <1> HIDE DEF p
  <1>2. \A r : InSeq(r, p) <=> InSeq(r, q) \/ r = x
    BY <1>1 DEF InSeq
  <1>3. Once(p)
    BY <1>1 DEF InSeq, Once
  <1> QED
    BY <1>2, <1>3 DEF p

LEMMA OnceTail ==
  ASSUME NEW q \in Seq(Requests), q # <<>>, Once(q)
  PROVE  /\ Once(Tail(q))
         /\ \A r : /\ InSeq(r, q) <=> r = Head(q) \/ InSeq(r, Tail(q))
                   /\ r = Head(q) => ~InSeq(r, Tail(q))
  <1> DEFINE t == Tail(q)
             n == Len(t)
  <1>1. /\ n \in Nat /\ Len(q) = n + 1 /\ q[1] = Head(q)
        /\ \A i \in 1 .. n : t[i] = q[i + 1] /\ i + 1 \in 1 .. Len(q) /\ i + 1 # 1
        /\ \A i \in 1 .. Len(q) : i = 1 \/ (i - 1 \in 1 .. n /\ (i - 1) + 1 = i)
        /\ 1 \in 1 .. Len(q)
    OBVIOUS
  <1> HIDE DEF t
  <1>2. ASSUME NEW r
        PROVE  /\ InSeq(r, q) <=> r = Head(q) \/ InSeq(r, t)
               /\ r = Head(q) => ~InSeq(r, t)
    <2>1. ASSUME NEW i \in 1 .. Len(q), q[i] = r PROVE r = Head(q) \/ InSeq(r, t)
      <3>1. CASE i = 1
        BY <1>1, <2>1, <3>1
      <3>2. CASE i # 1
        <4>1. i - 1 \in 1 .. n /\ t[i - 1] = q[i]
          BY <1>1, <3>2
        <4> QED
          BY <2>1, <4>1 DEF InSeq
      <3> QED
        BY <3>1, <3>2
    <2>2. r = Head(q) => InSeq(r, q)
      BY <1>1 DEF InSeq
    <2>3. ASSUME NEW i \in 1 .. n, t[i] = r PROVE InSeq(r, q) /\ r # Head(q)
      <3>1. i + 1 \in 1 .. Len(q) /\ q[i + 1] = r /\ i + 1 # 1
        BY <1>1, <2>3
      <3> QED
        BY <1>1, <3>1 DEF InSeq, Once
    <2> QED
      BY <2>1, <2>2, <2>3 DEF InSeq
  <1>3. ASSUME NEW i \in 1 .. n, NEW j \in 1 .. n, t[i] = t[j]
        PROVE  i = j
    <2>1. /\ i + 1 \in 1 .. Len(q) /\ j + 1 \in 1 .. Len(q) /\ q[i + 1] = q[j + 1]
      BY <1>1, <1>3
    <2>2. i + 1 = j + 1
      BY <2>1 DEF Once
    <2> QED
      BY <1>1, <2>2
  <1> QED
    BY <1>2, <1>3 DEF Once, t

Results == {"invalid", "shut", "dropped", "closed", "ok", "error", "refused", "late"}

\* A request is in one place or answered, once; nobody but the firmware it was
\* handed to, or a write into its cells, carries it out.
PlacedOf(r) ==
  /\ Queued(rx, r) => ~InSeq(r, requests) /\ r \notin handed
  /\ InSeq(r, requests) => r \notin handed
  /\ Waiting(r) => answers[r] = <<>>
  /\ answers[r] = <<>> \/ \E a \in Results : answers[r] = <<a>>
  /\ r \notin handed /\ answers[r] = <<>> => done[r] = 0 /\ r \notin denied
  /\ done[r] \in {0, 1} /\ (r \in denied => done[r] = 0)

Placed ==
  /\ QueuedOnce(rx) /\ Once(requests) /\ answers \in [Requests -> Seq(Results)]
  /\ \A r \in Requests : PlacedOf(r)

LEMMA WaitingIs ==
  ASSUME NEW r
  PROVE  Waiting(r) <=> r \in handed \/ InSeq(r, requests) \/ Queued(rx, r)
  BY DEF Waiting, Queued, Asks

LEMMA WaitingIsNext ==
  ASSUME NEW r
  PROVE  Waiting(r)' <=> r \in handed' \/ InSeq(r, requests') \/ Queued(rx', r)
  BY DEF Waiting, Queued, Asks, InSeq

\* What the asker knows, by the answer.
Knows(a) == IF a = "ok" THEN "ok"
            ELSE IF a \in {"late", "closed", "error"} THEN "unknown" ELSE "refused"

LEMMA KnownIs ==
  ASSUME NEW r
  PROVE  /\ answers[r] = <<>> => Known(r) = IF Waiting(r) THEN "waiting" ELSE "idle"
         /\ \A a : answers[r] = <<a>> => Known(r) = Knows(a)
  <1>1. ASSUME NEW a, answers[r] = <<a>> PROVE Known(r) = Knows(a)
    <2>1. answers[r] # <<>> /\ ~(Len(answers[r]) > 1) /\ Head(answers[r]) = a
      BY <1>1
    <2>2. CASE a = "ok"
      BY <2>1, <2>2 DEF Known, Knows
    <2>3. CASE a \in {"late", "closed", "error"}
      BY <2>1, <2>3 DEF Known, Knows
    <2>4. CASE a \notin {"ok", "late", "closed", "error"}
      BY <2>1, <2>4 DEF Known, Knows
    <2> QED
      BY <2>2, <2>3, <2>4
  <1>2. CASE answers[r] = <<>>
    BY <1>2 DEF Known
  <1> QED
    BY <1>1, <1>2

LEMMA KnownIsNext ==
  ASSUME NEW r
  PROVE  /\ answers'[r] = <<>> => Known(r)' = IF Waiting(r)' THEN "waiting" ELSE "idle"
         /\ \A a : answers'[r] = <<a>> => Known(r)' = Knows(a)
  <1>1. ASSUME NEW a, answers'[r] = <<a>> PROVE Known(r)' = Knows(a)
    <2>1. answers'[r] # <<>> /\ ~(Len(answers'[r]) > 1) /\ Head(answers'[r]) = a
      BY <1>1
    <2>2. CASE a = "ok"
      BY <2>1, <2>2 DEF Known, Knows
    <2>3. CASE a \in {"late", "closed", "error"}
      BY <2>1, <2>3 DEF Known, Knows
    <2>4. CASE a \notin {"ok", "late", "closed", "error"}
      BY <2>1, <2>4 DEF Known, Knows
    <2> QED
      BY <2>2, <2>3, <2>4
  <1>2. CASE answers'[r] = <<>>
    BY <1>2 DEF Known
  <1> QED
    BY <1>1, <1>2

\* A step that has nothing to do with this request, or only moves it on.
LEMMA KnownKept ==
  ASSUME NEW r, PlacedOf(r), answers'[r] = answers[r], Waiting(r)' <=> Waiting(r)
  PROVE  Known(r)' = Known(r)
  <1>1. CASE answers[r] = <<>>
    BY <1>1, KnownIs, KnownIsNext
  <1>2. CASE \E a \in Results : answers[r] = <<a>>
    BY <1>2, KnownIs, KnownIsNext
  <1> QED
    BY <1>1, <1>2 DEF PlacedOf

Same(r) ==
  /\ Queued(rx', r) <=> Queued(rx, r)
  /\ InSeq(r, requests') <=> InSeq(r, requests)
  /\ r \in handed' <=> r \in handed
  /\ r \in denied' <=> r \in denied
  /\ answers'[r] = answers[r] /\ done'[r] = done[r]

LEMMA SameKept ==
  ASSUME NEW r, PlacedOf(r), Same(r)
  PROVE  PlacedOf(r)' /\ Known(r)' = Known(r)
  <1>1. Waiting(r)' <=> Waiting(r)
    BY WaitingIs, WaitingIsNext DEF Same
  <1>2. Queued(rx, r)' <=> Queued(rx', r)
    BY DEF Queued, Asks
  <1>3. InSeq(r, requests)' <=> InSeq(r, requests')
    BY DEF InSeq
  <1> QED
    BY <1>1, <1>2, <1>3, KnownKept DEF PlacedOf, Same

------------------------------------------------------------------------------
(* The contract, step by step *)

Stutter == UNCHANGED <<[r \in Requests |-> Known(r)], done>>

LEMMA StutterStep ==
  ASSUME done' = done, \A q \in Requests : Known(q)' = Known(q)
  PROVE  Stutter
  BY DEF Stutter

\* Only what is known of r changes.
Learnt(r) == \A q \in Requests : q # r => Known(q)' = Known(q)

LEMMA LearntIs ==
  ASSUME NEW r \in Requests, Learnt(r)
  PROVE  [q \in Requests |-> Known(q)]' = [[q \in Requests |-> Known(q)] EXCEPT ![r] = Known(r)']
  BY DEF Learnt

LEMMA AskStep ==
  ASSUME NEW r \in Requests, Learnt(r), done' = done, Known(r) = "idle", Known(r)' = "waiting"
  PROVE  Contract!Next
  <1>1. Contract!Ask(r)
    BY LearntIs DEF Contract!Ask
  <1> QED
    BY <1>1 DEF Contract!Next

LEMMA RefuseStep ==
  ASSUME NEW r \in Requests, Learnt(r), done' = done, Known(r) = "waiting", Known(r)' = "refused",
         done[r] = 0
  PROVE  Contract!Next
  <1>1. Contract!Refuse(r)
    BY LearntIs DEF Contract!Refuse
  <1> QED
    BY <1>1 DEF Contract!Next

LEMMA ConfirmStep ==
  ASSUME NEW r \in Requests, Learnt(r), done' = done, Known(r) = "waiting", Known(r)' = "ok", done[r] = 1
  PROVE  Contract!Next
  <1>1. Contract!Confirm(r)
    BY LearntIs DEF Contract!Confirm
  <1> QED
    BY <1>1 DEF Contract!Next

LEMMA FulfilStep ==
  ASSUME NEW r \in Requests, Learnt(r), done' = [done EXCEPT ![r] = 1], Known(r) = "waiting",
         Known(r)' = "ok", done[r] = 0
  PROVE  Contract!Next
  <1>1. Contract!Fulfil(r)
    BY LearntIs DEF Contract!Fulfil
  <1> QED
    BY <1>1 DEF Contract!Next

LEMMA CarryOutStep ==
  ASSUME NEW r \in Requests, \A q \in Requests : Known(q)' = Known(q),
         Known(r) \in {"waiting", "unknown"}, done[r] = 0, done' = [done EXCEPT ![r] = 1]
  PROVE  Contract!Next
  <1>1. Contract!CarryOut(r)
    BY DEF Contract!CarryOut
  <1> QED
    BY <1>1 DEF Contract!Next

LEMMA GiveUpStep ==
  ASSUME NEW S \in SUBSET Requests, NEW T \in SUBSET Requests, done' = done, S \intersect T = {},
         \A r \in S : Known(r) = "waiting" /\ Known(r)' = "unknown",
         \A r \in T : Known(r) = "waiting" /\ Known(r)' = "refused" /\ done[r] = 0,
         \A r \in Requests \ (S \union T) : Known(r)' = Known(r)
  PROVE  Contract!Next
  <1>1. Contract!GiveUp(S, T)
    BY DEF Contract!GiveUp
  <1> QED
    BY <1>1 DEF Contract!Next

IInv == Types /\ Placed
Promised == Placed' /\ (Contract!Next \/ Stutter)

\* Only the request concerned has to be looked at.
LEMMA PlacedByOne ==
  ASSUME Placed, NEW r \in Requests, \A q \in Requests : q # r => Same(q), PlacedOf(r)',
         QueuedOnce(rx'), Once(requests'), answers' \in [Requests -> Seq(Results)]
  PROVE  Placed' /\ Learnt(r)
  <1>1. \A q \in Requests : PlacedOf(q)' /\ (q # r => Known(q)' = Known(q))
    BY SameKept DEF Placed
  <1>2. QueuedOnce(rx)' /\ Once(requests)'
    BY DEF QueuedOnce, Once, Asks
  <1> QED
    BY <1>1, <1>2 DEF Placed, Learnt

\* Nobody's place changes.
LEMMA PlacedBySame ==
  ASSUME Placed, \A q \in Requests : Same(q),
         QueuedOnce(rx'), Once(requests'), answers' = answers, done' = done
  PROVE  Promised
  <1>1. \A q \in Requests : PlacedOf(q)' /\ Known(q)' = Known(q)
    BY SameKept DEF Placed
  <1>2. QueuedOnce(rx)' /\ Once(requests)'
    BY DEF QueuedOnce, Once, Asks
  <1>3. Placed'
    BY <1>1, <1>2 DEF Placed
  <1>4. Stutter
    BY <1>1, StutterStep
  <1> QED
    BY <1>3, <1>4 DEF Promised

\* A request that waited is answered with a, and is nowhere any more.
LEMMA AnswerIs ==
  ASSUME Placed, NEW r \in Requests, NEW a \in Results, Waiting(r), Answer(r, a),
         ~Queued(rx', r), ~InSeq(r, requests'), r \notin handed',
         done'[r] \in {0, 1}, r \in denied' => done'[r] = 0,
         \A q \in Requests : q # r =>
           /\ Queued(rx', q) <=> Queued(rx, q)
           /\ InSeq(q, requests') <=> InSeq(q, requests)
           /\ q \in handed' <=> q \in handed
           /\ q \in denied' <=> q \in denied
           /\ done'[q] = done[q],
         QueuedOnce(rx'), Once(requests')
  PROVE  Placed' /\ Learnt(r) /\ Known(r) = "waiting" /\ Known(r)' = Knows(a)
  <1>1. answers[r] = <<>> /\ answers \in [Requests -> Seq(Results)]
    BY DEF Placed, PlacedOf
  <1>2. Append(<<>>, a) = <<a>> /\ <<a>> # <<>> /\ <<a>> \in Seq(Results)
    OBVIOUS
  <1>3. /\ answers'[r] = <<a>> /\ answers' \in [Requests -> Seq(Results)]
        /\ \A q \in Requests : q # r => answers'[q] = answers[q]
    BY <1>1, <1>2 DEF Answer
  <1>4. ~Waiting(r)'
    BY WaitingIsNext
  <1>5. ~Queued(rx, r)' /\ ~InSeq(r, requests)'
    BY DEF Queued, InSeq, Asks
  <1>6. PlacedOf(r)'
    BY <1>2, <1>3, <1>4, <1>5 DEF PlacedOf
  <1>7. Placed' /\ Learnt(r)
    BY <1>3, <1>6, PlacedByOne DEF Same
  <1> QED
    BY <1>1, <1>3, <1>7, KnownIs, KnownIsNext

LEMMA Moved ==
  ASSUME UNCHANGED <<rx, requests, handed, answers, done, denied>>, Placed
  PROVE  Promised
  BY PlacedBySame DEF Same, Placed, QueuedOnce, Once

LEMMA OthersMoved ==
  ASSUME Placed,
         \/ Open \/ Drained \/ ServeEnds \/ PollEnds \/ TargetMoves \/ UNCHANGED vars
         \/ \E d \in Rounds : NoSample(d) \/ SampleOk(d)
  PROVE  Promised
  <1>1. UNCHANGED <<rx, requests, handed, answers, done, denied>>
    BY DEF Open, Drained, ServeEnds, PollEnds, TargetMoves, NoSample, SampleOk, vars, queueVars, askVars
  <1> QED
    BY <1>1, Moved

LEMMA SendIs ==
  ASSUME Types, Placed, NEW c \in Commands, Send(c), \A r \in Requests : Asks(c, r) => Fresh(r)
  PROVE  /\ UNCHANGED <<requests, handed, answers, done, denied>>
         /\ QueuedOnce(rx') /\ Once(requests')
         /\ \A r \in Requests : Queued(rx', r) <=> Queued(rx, r) \/ Asks(c, r)
  <1>1. rx' = Append(rx, c) /\ UNCHANGED <<requests, handed, answers, done, denied>>
    BY DEF Send, askVars
  <1>2. rx \in Seq(Commands) /\ QueuedOnce(rx) /\ Once(requests)
    BY DEF Types, Placed
  <1>3. \A r \in Requests : Asks(c, r) => ~Queued(rx, r)
    BY WaitingIs DEF Fresh
  <1>4. QueuedOnce(rx') /\ \A r \in Requests : Queued(rx', r) <=> Queued(rx, r) \/ Asks(c, r)
    BY <1>1, <1>2, <1>3, QueuedAppend
  <1> QED
    BY <1>1, <1>2, <1>4

LEMMA SendRequestKept ==
  ASSUME IInv, NEW r \in Requests, SendRequest(r)
  PROVE  Promised
  <1> DEFINE c == [kind |-> "request", request |-> r]
  <1>1. c \in Commands /\ Send(c) /\ Fresh(r) /\ \A q : Asks(c, q) <=> q = r
    BY DEF SendRequest, Commands, Asks
  <1> HIDE DEF c
  <1>2. /\ UNCHANGED <<requests, handed, answers, done, denied>>
        /\ QueuedOnce(rx') /\ Once(requests')
        /\ \A q \in Requests : Queued(rx', q) <=> Queued(rx, q) \/ q = r
    BY <1>1, SendIs DEF IInv
  <1>3. answers[r] = <<>> /\ ~Waiting(r) /\ r \notin handed /\ ~InSeq(r, requests) /\ PlacedOf(r)
    BY <1>1, WaitingIs DEF Fresh, IInv, Placed
  <1>4. /\ Queued(rx, r)' /\ ~InSeq(r, requests)' /\ r \notin handed' /\ answers'[r] = <<>>
        /\ done'[r] = done[r] /\ (r \in denied' <=> r \in denied)
    BY <1>2, <1>3 DEF Queued, Asks, InSeq
  <1>5. PlacedOf(r)'
    BY <1>3, <1>4 DEF PlacedOf
  <1>6. Placed' /\ Learnt(r)
    BY <1>2, <1>5, PlacedByOne DEF IInv, Placed, Same
  <1>7. Known(r) = "idle" /\ Known(r)' = "waiting"
    BY <1>2, <1>3, <1>4, KnownIs, KnownIsNext, WaitingIsNext
  <1> QED
    BY <1>2, <1>6, <1>7, AskStep DEF Promised

LEMMA SendOtherKept ==
  ASSUME IInv, SendOther
  PROVE  Promised
  <1>1. PICK c \in Commands : Send(c) /\ \A r : ~Asks(c, r)
    <2>1. \A on \in BOOLEAN : [kind |-> "watches", on |-> on] \in Commands
                              /\ \A r : ~Asks([kind |-> "watches", on |-> on], r)
      BY DEF Commands, Asks
    <2>2. /\ [kind |-> "rate"] \in Commands /\ \A r : ~Asks([kind |-> "rate"], r)
          /\ [kind |-> "stop"] \in Commands /\ \A r : ~Asks([kind |-> "stop"], r)
      BY DEF Commands, Asks
    <2>3. \A b \in Builds \union {"none"} : [kind |-> "catalog", elf |-> b] \in Commands
                              /\ \A r : ~Asks([kind |-> "catalog", elf |-> b], r)
      BY DEF Commands, Asks
    <2> QED
      BY <2>1, <2>2, <2>3 DEF SendOther
  <1>2. /\ UNCHANGED <<requests, handed, answers, done, denied>>
        /\ QueuedOnce(rx') /\ Once(requests')
        /\ \A q \in Requests : Queued(rx', q) <=> Queued(rx, q)
    BY <1>1, SendIs DEF IInv
  <1> QED
    BY <1>2, PlacedBySame DEF IInv, Same

\* A request taken from the channel waits in the queue of requests instead.
LEMMA TakeKept ==
  ASSUME IInv, Take
  PROVE  Promised
  <1> PICK c \in Commands : c = Head(rx)
    BY DEF IInv, Types, Take
  <1>1. /\ rx # <<>> /\ rx' = Tail(rx) /\ UNCHANGED <<handed, answers, done, denied>>
        /\ requests' = IF c.kind = "request" THEN Append(requests, c.request) ELSE requests
    BY DEF Take, askVars
  <1>2. /\ rx \in Seq(Commands) /\ requests \in Seq(Requests)
        /\ QueuedOnce(rx) /\ Once(requests) /\ \A r \in Requests : PlacedOf(r)
    BY DEF IInv, Types, Placed
  <1>3. /\ QueuedOnce(rx')
        /\ \A r \in Requests : /\ Queued(rx, r) <=> Asks(c, r) \/ Queued(rx', r)
                               /\ Asks(c, r) => ~Queued(rx', r)
    BY <1>1, <1>2, QueuedTail
  <1>4. CASE c.kind = "request"
    <2> DEFINE r == c.request
    <2>1. r \in Requests /\ \A q : Asks(c, q) <=> q = r
      BY <1>4 DEF Commands, Asks
    <2> HIDE DEF r
    <2>2. Queued(rx, r) /\ ~Queued(rx', r) /\ ~InSeq(r, requests) /\ r \notin handed
      BY <1>2, <1>3, <2>1 DEF PlacedOf
    <2>3. requests' = Append(requests, r)
      BY <1>1, <1>4 DEF r
    <2>4. Once(requests') /\ \A q : InSeq(q, requests') <=> InSeq(q, requests) \/ q = r
      BY <1>2, <2>1, <2>2, <2>3, OnceAppend
    <2>5. answers[r] = <<>> /\ answers'[r] = <<>> /\ Waiting(r) /\ Waiting(r)'
      BY <1>1, <1>2, <2>1, <2>2, <2>4, WaitingIs, WaitingIsNext DEF PlacedOf
    <2>6. Known(r) = "waiting" /\ Known(r)' = "waiting"
      BY <2>5, KnownIs, KnownIsNext
    <2>7. ~Queued(rx, r)' /\ InSeq(r, requests)' /\ r \notin handed' /\ r \in Requests
      BY <1>1, <2>1, <2>2, <2>4 DEF Queued, Asks, InSeq
    <2>8. PlacedOf(r)'
      BY <1>1, <1>2, <2>5, <2>7 DEF PlacedOf
    <2>9. Placed' /\ Learnt(r)
      BY <1>1, <1>3, <2>1, <2>4, <2>8, PlacedByOne DEF IInv, Placed, Same
    <2>10. Stutter
      BY <1>1, <2>6, <2>9, StutterStep DEF Learnt
    <2> QED
      BY <2>9, <2>10 DEF Promised
  <1>5. CASE c.kind # "request"
    <2>1. requests' = requests /\ \A q : ~Asks(c, q)
      BY <1>1, <1>5 DEF Asks
    <2> QED
      BY <1>1, <1>2, <1>3, <2>1, PlacedBySame DEF IInv, Same
  <1> QED
    BY <1>4, <1>5

\* Everything that waited is given up: what was handed on may have been
\* carried out, the rest was not and never will be.
LEMMA FinishKept ==
  ASSUME IInv, NEW how, Finish(how), UNCHANGED <<done, denied>>
  PROVE  Promised
  <1> DEFINE S == handed
             T == {r \in Requests : Waiting(r) /\ r \notin handed}
  <1>1. /\ handed' = {} /\ rx' = <<>> /\ requests' = <<>>
        /\ answers' = [r \in Requests |-> IF r \in handed THEN Append(answers[r], "closed")
                                          ELSE IF Waiting(r) THEN Append(answers[r], "dropped")
                                          ELSE answers[r]]
    BY DEF Finish, Closed
  <1>2. /\ handed \subseteq Requests /\ answers \in [Requests -> Seq(Results)]
        /\ \A r \in Requests : PlacedOf(r)
    BY DEF IInv, Types, Placed
  <1>3. /\ QueuedOnce(rx') /\ Once(requests')
        /\ \A r : ~Queued(rx', r) /\ ~InSeq(r, requests')
    BY <1>1 DEF QueuedOnce, Once, Queued, InSeq
  <1>4. /\ \A a \in Results : Append(<<>>, a) = <<a>> /\ <<a>> # <<>> /\ <<a>> \in Seq(Results)
        /\ "closed" \in Results /\ "dropped" \in Results
    BY DEF Results
  <1>5. \A r \in Requests : ~Waiting(r)' /\ (r \in handed => Waiting(r))
    BY <1>1, <1>3, WaitingIs, WaitingIsNext
  <1>6. \A r \in Requests :
          /\ r \in S => answers'[r] = <<"closed">> /\ answers[r] = <<>>
          /\ r \in T => answers'[r] = <<"dropped">> /\ answers[r] = <<>> /\ done[r] = 0
          /\ r \notin S \union T => answers'[r] = answers[r] /\ ~Waiting(r)
    BY <1>1, <1>2, <1>4, <1>5 DEF PlacedOf
  <1>7. answers' \in [Requests -> Seq(Results)]
    <2>1. \A r \in Requests : answers'[r] \in Seq(Results)
      BY <1>2, <1>4, <1>6
    <2> QED
      BY <1>1, <2>1
  <1>8. ASSUME NEW r \in Requests PROVE PlacedOf(r)'
    <2>1. answers'[r] = <<>> \/ \E a \in Results : answers'[r] = <<a>>
      BY <1>2, <1>4, <1>6 DEF PlacedOf
    <2>2. r \notin handed' /\ answers'[r] = <<>> => done[r] = 0 /\ r \notin denied
      BY <1>2, <1>4, <1>6 DEF PlacedOf
    <2>3. ~Queued(rx, r)' /\ ~InSeq(r, requests)' /\ r \notin handed'
      BY <1>1, <1>3 DEF Queued, InSeq, Asks
    <2> QED
      BY <1>2, <1>5, <2>1, <2>2, <2>3 DEF PlacedOf
  <1>9. Placed'
    <2>1. QueuedOnce(rx)' /\ Once(requests)'
      BY <1>3 DEF QueuedOnce, Once, Asks
    <2> QED
      BY <1>7, <1>8, <2>1 DEF Placed
  <1>10. /\ \A r \in S : Known(r) = "waiting" /\ Known(r)' = "unknown"
         /\ \A r \in T : Known(r) = "waiting" /\ Known(r)' = "refused" /\ done[r] = 0
    <2>1. Knows("closed") = "unknown" /\ Knows("dropped") = "refused"
      BY DEF Knows
    <2> QED
      BY <1>2, <1>5, <1>6, <2>1, KnownIs, KnownIsNext
  <1>11. \A r \in Requests \ (S \union T) : Known(r)' = Known(r)
    BY <1>2, <1>5, <1>6, KnownKept
  <1>12. S \in SUBSET Requests /\ T \in SUBSET Requests /\ S \intersect T = {}
    BY <1>2
  <1> HIDE DEF S, T
  <1>13. Contract!Next
    BY <1>10, <1>11, <1>12, GiveUpStep
  <1> QED
    BY <1>9, <1>13 DEF Promised

LEMMA EndsKept ==
  ASSUME IInv, TakeStop \/ OpenFails \/ \E d \in Rounds : SampleFails(d)
  PROVE  Promised
  <1>1. CASE TakeStop
    BY <1>1, FinishKept DEF TakeStop
  <1>2. UNCHANGED <<done, denied>> /\ UNCHANGED <<rx, requests, handed, answers>> => Promised
    BY Moved DEF IInv
  <1>3. CASE OpenFails
    <2>1. CASE GivesUp(failing)
      BY <1>3, <2>1, FinishKept DEF OpenFails
    <2>2. CASE ~GivesUp(failing)
      BY <1>2, <1>3, <2>2 DEF OpenFails, queueVars
    <2> QED
      BY <2>1, <2>2
  <1>4. ASSUME NEW d \in Rounds, SampleFails(d) PROVE Promised
    <2>1. UNCHANGED <<done, denied>> /\ (Finish("lost") \/ UNCHANGED <<queueVars, handed, answers>>)
      BY <1>4 DEF SampleFails
    <2> QED
      BY <1>2, <2>1, FinishKept DEF queueVars
  <1> QED
    BY <1>1, <1>3, <1>4

\* While the memory does not open, what was asked is refused.
LEMMA RetryKept ==
  ASSUME IInv, NEW d \in Rounds, Retry(d)
  PROVE  Promised
  <1> DEFINE T == {r \in Requests : InSeq(r, requests)}
  <1>1. /\ rx' = rx /\ requests' = <<>> /\ UNCHANGED <<handed, done, denied>>
        /\ answers' = [r \in Requests |-> IF r \in T THEN Append(answers[r], "shut") ELSE answers[r]]
    BY DEF Retry, AnswerAll, AfterRefusal
  <1>2. answers \in [Requests -> Seq(Results)] /\ QueuedOnce(rx) /\ \A r \in Requests : PlacedOf(r)
    BY DEF IInv, Placed
  <1>3. /\ QueuedOnce(rx') /\ Once(requests')
        /\ \A r : ~InSeq(r, requests') /\ (Queued(rx', r) <=> Queued(rx, r))
    BY <1>1, <1>2 DEF Once, InSeq
  <1>4. Append(<<>>, "shut") = <<"shut">> /\ <<"shut">> # <<>> /\ <<"shut">> \in Seq(Results) /\ "shut" \in Results
    BY DEF Results
  <1>5. \A r \in Requests :
          /\ r \in T => /\ answers'[r] = <<"shut">> /\ answers[r] = <<>> /\ done[r] = 0
                        /\ Waiting(r) /\ ~Waiting(r)' /\ ~Queued(rx, r) /\ r \notin handed
          /\ r \notin T => answers'[r] = answers[r] /\ ~InSeq(r, requests)
    BY <1>1, <1>2, <1>3, <1>4, WaitingIs, WaitingIsNext DEF PlacedOf
  <1>6. answers' \in [Requests -> Seq(Results)]
    BY <1>1, <1>2, <1>4, <1>5
  <1>7. ASSUME NEW r \in Requests, r \in T PROVE PlacedOf(r)'
    <2>1. ~Queued(rx, r)' /\ ~InSeq(r, requests)' /\ r \notin handed'
      BY <1>1, <1>3, <1>5, <1>7 DEF Queued, InSeq, Asks
    <2> QED
      BY <1>1, <1>2, <1>4, <1>5, <1>7, <2>1 DEF PlacedOf
  <1>8. ASSUME NEW r \in Requests, r \notin T PROVE PlacedOf(r)' /\ Known(r)' = Known(r)
    <2>1. Same(r) /\ PlacedOf(r)
      BY <1>1, <1>2, <1>3, <1>5, <1>8 DEF Same
    <2> QED
      BY <2>1, SameKept
  <1>9. Placed'
    <2>1. QueuedOnce(rx)' /\ Once(requests)'
      BY <1>3 DEF QueuedOnce, Once, Asks
    <2> QED
      BY <1>6, <1>7, <1>8, <2>1 DEF Placed
  <1>10. \A r \in T : Known(r) = "waiting" /\ Known(r)' = "refused" /\ done[r] = 0
    <2>1. Knows("shut") = "refused"
      BY DEF Knows
    <2> QED
      BY <1>5, <2>1, KnownIs, KnownIsNext
  <1>11. \A r \in Requests \ T : Known(r)' = Known(r)
    BY <1>8
  <1>12. T \in SUBSET Requests /\ {} \in SUBSET Requests /\ {} \intersect T = {} /\ {} \union T = T
    OBVIOUS
  <1> HIDE DEF T
  <1>13. Contract!Next
    BY <1>1, <1>10, <1>11, <1>12, GiveUpStep
  <1> QED
    BY <1>9, <1>13 DEF Promised

\* The head of the queue of requests is served: it is nowhere else.
LEMMA ServedIs ==
  ASSUME IInv, NEW r \in Requests, Served(r)
  PROVE  /\ rx' = rx /\ denied' = denied /\ QueuedOnce(rx') /\ Once(requests')
         /\ Waiting(r) /\ ~Queued(rx', r) /\ ~InSeq(r, requests') /\ r \notin handed
         /\ answers[r] = <<>> /\ done[r] = 0 /\ r \notin denied
         /\ \A q \in Requests : q # r => (InSeq(q, requests') <=> InSeq(q, requests))
  <1>1. /\ requests # <<>> /\ r = Head(requests) /\ requests' = Tail(requests) /\ rx' = rx /\ denied' = denied
        /\ requests \in Seq(Requests) /\ Once(requests) /\ QueuedOnce(rx) /\ PlacedOf(r)
    BY DEF Served, IInv, Types, Placed
  <1>2. Once(requests') /\ \A q : /\ InSeq(q, requests) <=> q = r \/ InSeq(q, requests')
                                  /\ q = r => ~InSeq(q, requests')
    BY <1>1, OnceTail
  <1>3. Waiting(r)
    BY <1>2, WaitingIs
  <1> QED
    BY <1>1, <1>2, <1>3 DEF PlacedOf

\* It is answered at once.
LEMMA ServedAnswered ==
  ASSUME IInv, NEW r \in Requests, Served(r), NEW a \in Results, Answer(r, a), handed' = handed,
         done'[r] \in {0, 1}, \A q \in Requests : q # r => done'[q] = done[q]
  PROVE  Placed' /\ Learnt(r) /\ Known(r) = "waiting" /\ Known(r)' = Knows(a) /\ done[r] = 0
  <1>1. /\ rx' = rx /\ denied' = denied /\ QueuedOnce(rx') /\ Once(requests')
        /\ Waiting(r) /\ ~Queued(rx', r) /\ ~InSeq(r, requests') /\ r \notin handed
        /\ done[r] = 0 /\ r \notin denied
        /\ \A q \in Requests : q # r => (InSeq(q, requests') <=> InSeq(q, requests))
    BY ServedIs
  <1>2. Placed
    BY DEF IInv
  <1>3. \A q \in Requests : q # r =>
           /\ Queued(rx', q) <=> Queued(rx, q)
           /\ InSeq(q, requests') <=> InSeq(q, requests)
           /\ q \in handed' <=> q \in handed
           /\ q \in denied' <=> q \in denied
           /\ done'[q] = done[q]
    BY <1>1
  <1> QED
    BY <1>1, <1>2, <1>3, AnswerIs

LEMMA ServedRefused ==
  ASSUME IInv, NEW r \in Requests, Served(r), Answer(r, "invalid"), UNCHANGED <<handed, done>>
  PROVE  Promised
  <1>1. "invalid" \in Results /\ Knows("invalid") = "refused"
    BY DEF Results, Knows
  <1>2. done'[r] \in {0, 1}
    BY DEF IInv, Placed, PlacedOf
  <1>3. Placed' /\ Learnt(r) /\ Known(r) = "waiting" /\ Known(r)' = "refused" /\ done[r] = 0
    BY <1>1, <1>2, ServedAnswered
  <1> QED
    BY <1>3, RefuseStep DEF Promised

LEMMA ServeNoTableKept ==
  ASSUME IInv, NEW r \in Requests, ServeNoTable(r)
  PROVE  Promised
  BY ServedRefused DEF ServeNoTable

\* Handed to the firmware's channels, it goes on waiting.
LEMMA ServeFramedKept ==
  ASSUME IInv, NEW r \in Requests, ServeFramed(r)
  PROVE  Promised
  <1>1. CASE Answer(r, "invalid") /\ UNCHANGED handed
    BY <1>1, ServedRefused DEF ServeFramed
  <1>2. CASE handed' = handed \union {r} /\ UNCHANGED answers
    <2>1. Served(r) /\ done' = done
      BY DEF ServeFramed
    <2>2. /\ rx' = rx /\ denied' = denied /\ QueuedOnce(rx') /\ Once(requests')
          /\ Waiting(r) /\ ~Queued(rx', r) /\ ~InSeq(r, requests')
          /\ answers[r] = <<>> /\ done[r] = 0 /\ r \notin denied
          /\ \A q \in Requests : q # r => (InSeq(q, requests') <=> InSeq(q, requests))
      BY <2>1, ServedIs
    <2>3. Waiting(r)' /\ answers'[r] = <<>>
      BY <1>2, <2>2, WaitingIsNext
    <2>4. Known(r) = "waiting" /\ Known(r)' = "waiting"
      BY <2>2, <2>3, KnownIs, KnownIsNext
    <2>5. ~Queued(rx, r)' /\ ~InSeq(r, requests)' /\ r \in handed'
      BY <1>2, <2>2 DEF Queued, Asks, InSeq
    <2>6. PlacedOf(r)'
      BY <2>1, <2>2, <2>3, <2>5 DEF PlacedOf
    <2>7. Placed' /\ Learnt(r)
      BY <1>2, <2>1, <2>2, <2>6, PlacedByOne DEF IInv, Placed, Same
    <2>8. Stutter
      BY <2>1, <2>4, <2>7, StutterStep DEF Learnt
    <2> QED
      BY <2>7, <2>8 DEF Promised
  <1> QED
    BY <1>1, <1>2 DEF ServeFramed

\* Its cells are written, or that fails, or it is not allowed to.
LEMMA ServeCellsKept ==
  ASSUME IInv, NEW r \in Requests, ServeCells(r)
  PROVE  Promised
  <1>1. /\ Served(r) /\ handed' = handed
        /\ \/ Answer(r, "invalid") /\ done' = done
           \/ Answer(r, "ok") /\ done' = [done EXCEPT ![r] = @ + 1]
           \/ Answer(r, "error") /\ done' = done
    BY DEF ServeCells, Failed
  <1>2. done[r] = 0 /\ done \in [Requests -> Nat]
    BY <1>1, ServedIs DEF IInv, Types
  <1>3. CASE Answer(r, "invalid") /\ done' = done
    BY <1>1, <1>3, ServedRefused
  <1>4. CASE Answer(r, "ok") /\ done' = [done EXCEPT ![r] = @ + 1]
    <2>1. done' = [done EXCEPT ![r] = 1] /\ done'[r] = 1 /\ \A q \in Requests : q # r => done'[q] = done[q]
      BY <1>2, <1>4
    <2>2. "ok" \in Results /\ Knows("ok") = "ok"
      BY DEF Results, Knows
    <2>3. Placed' /\ Learnt(r) /\ Known(r) = "waiting" /\ Known(r)' = "ok"
      BY <1>1, <1>4, <2>1, <2>2, ServedAnswered
    <2> QED
      BY <1>2, <2>1, <2>3, FulfilStep DEF Promised
  <1>5. CASE Answer(r, "error") /\ done' = done
    <2>1. "error" \in Results /\ Knows("error") = "unknown"
      BY DEF Results, Knows
    <2>2. Placed' /\ Learnt(r) /\ Known(r) = "waiting" /\ Known(r)' = "unknown"
      BY <1>1, <1>2, <1>5, <2>1, ServedAnswered
    <2>3. {r} \in SUBSET Requests /\ {} \in SUBSET Requests /\ {r} \intersect {} = {}
      OBVIOUS
    <2>4. Contract!Next
      BY <1>5, <2>2, <2>3, GiveUpStep DEF Learnt
    <2> QED
      BY <2>2, <2>4 DEF Promised
  <1> QED
    BY <1>1, <1>3, <1>4, <1>5

LEMMA PollAnswerKept ==
  ASSUME IInv, NEW r \in Requests, PollAnswer(r)
  PROVE  Promised
  <1>1. /\ r \in handed /\ handed' = handed \ {r} /\ UNCHANGED <<rx, requests, done, denied>>
        /\ \/ done[r] = 1 /\ Answer(r, "ok")
           \/ r \in denied /\ Answer(r, "refused")
           \/ Answer(r, "late")
    BY DEF PollAnswer, queueVars
  <1>2. Placed /\ PlacedOf(r) /\ QueuedOnce(rx') /\ Once(requests') /\ Waiting(r)
    BY <1>1, WaitingIs DEF IInv, Placed
  <1>3. ~Queued(rx', r) /\ ~InSeq(r, requests') /\ done'[r] \in {0, 1} /\ (r \in denied' => done'[r] = 0)
    BY <1>1, <1>2 DEF PlacedOf
  <1>4. ASSUME NEW a \in Results, Answer(r, a)
        PROVE  Placed' /\ Learnt(r) /\ Known(r) = "waiting" /\ Known(r)' = Knows(a)
    <2>1. r \notin handed' /\ \A q \in Requests : q # r =>
            /\ Queued(rx', q) <=> Queued(rx, q)
            /\ InSeq(q, requests') <=> InSeq(q, requests)
            /\ q \in handed' <=> q \in handed
            /\ q \in denied' <=> q \in denied
            /\ done'[q] = done[q]
      BY <1>1
    <2> QED
      BY <1>2, <1>3, <1>4, <2>1, AnswerIs
  <1>5. /\ {"ok", "refused", "late"} \subseteq Results
        /\ Knows("ok") = "ok" /\ Knows("refused") = "refused" /\ Knows("late") = "unknown"
    BY DEF Results, Knows
  <1>6. CASE done[r] = 1 /\ Answer(r, "ok")
    <2>1. Placed' /\ Learnt(r) /\ Known(r) = "waiting" /\ Known(r)' = "ok"
      BY <1>4, <1>5, <1>6
    <2> QED
      BY <1>1, <1>6, <2>1, ConfirmStep DEF Promised
  <1>7. CASE r \in denied /\ Answer(r, "refused")
    <2>1. Placed' /\ Learnt(r) /\ Known(r) = "waiting" /\ Known(r)' = "refused" /\ done[r] = 0
      BY <1>2, <1>4, <1>5, <1>7 DEF PlacedOf
    <2> QED
      BY <1>1, <2>1, RefuseStep DEF Promised
  <1>8. CASE Answer(r, "late")
    <2>1. Placed' /\ Learnt(r) /\ Known(r) = "waiting" /\ Known(r)' = "unknown"
      BY <1>4, <1>5, <1>8
    <2>2. {r} \in SUBSET Requests /\ {} \in SUBSET Requests /\ {r} \intersect {} = {}
      OBVIOUS
    <2>3. Contract!Next
      BY <1>1, <2>1, <2>2, GiveUpStep DEF Learnt
    <2> QED
      BY <2>1, <2>3 DEF Promised
  <1> QED
    BY <1>1, <1>6, <1>7, <1>8

\* The firmware carries out, or turns down, what waits for it or was given up.
LEMMA FirmwareKept ==
  ASSUME IInv, NEW r \in Requests, FirmwareServes(r)
  PROVE  Promised
  <1>1. /\ UNCHANGED <<rx, requests, handed, answers>>
        /\ r \in handed \/ InSeq("late", answers[r]) \/ InSeq("closed", answers[r])
        /\ done[r] = 0 /\ r \notin denied
        /\ \/ done' = [done EXCEPT ![r] = 1] /\ UNCHANGED denied
           \/ denied' = denied \union {r} /\ UNCHANGED done
    BY DEF FirmwareServes, queueVars
  <1>2. Placed /\ PlacedOf(r) /\ QueuedOnce(rx') /\ Once(requests') /\ done \in [Requests -> Nat]
        /\ answers' \in [Requests -> Seq(Results)]
    BY <1>1 DEF IInv, Types, Placed
  <1>3. \A q \in Requests : Waiting(q)' <=> Waiting(q)
    BY <1>1, WaitingIs, WaitingIsNext
  <1>4. \A q \in Requests : Known(q)' = Known(q)
    BY <1>1, <1>3, KnownKept DEF IInv, Placed
  <1>5. r \in handed \/ answers[r] \in {<<"late">>, <<"closed">>}
    <2>1. ASSUME NEW a \in Results, answers[r] = <<a>> PROVE \A x : InSeq(x, answers[r]) => x = a
      BY <2>1 DEF InSeq
    <2>2. answers[r] = <<>> => \A x : ~InSeq(x, answers[r])
      BY DEF InSeq
    <2> QED
      BY <1>1, <1>2, <2>1, <2>2 DEF PlacedOf
  <1>6. <<"late">> # <<>> /\ <<"closed">> # <<>> /\ Knows("late") = "unknown" /\ Knows("closed") = "unknown"
    BY DEF Knows
  <1>7. Known(r) \in {"waiting", "unknown"}
    <2>1. r \in handed => Waiting(r) /\ answers[r] = <<>>
      BY <1>2, WaitingIs DEF PlacedOf
    <2> QED
      BY <1>5, <1>6, <2>1, KnownIs
  <1>8. PlacedOf(r)'
    <2>1. done'[r] \in {0, 1} /\ (r \in denied' => done'[r] = 0)
      BY <1>1, <1>2
    <2>2. r \notin handed' /\ answers'[r] = <<>> => FALSE
      BY <1>1, <1>5, <1>6
    <2>3. /\ Queued(rx, r)' <=> Queued(rx, r)
          /\ InSeq(r, requests)' <=> InSeq(r, requests)
      BY <1>1 DEF Queued, InSeq, Asks
    <2> QED
      BY <1>1, <1>2, <1>3, <2>1, <2>2, <2>3 DEF PlacedOf
  <1>9. \A q \in Requests : q # r => Same(q)
    BY <1>1, <1>2 DEF Same
  <1>10. Placed'
    BY <1>2, <1>8, <1>9, PlacedByOne
  <1>11. CASE done' = [done EXCEPT ![r] = 1]
    BY <1>1, <1>4, <1>7, <1>10, <1>11, CarryOutStep DEF Promised
  <1>12. CASE done' = done
    BY <1>4, <1>10, <1>12, StutterStep DEF Promised
  <1> QED
    BY <1>1, <1>11, <1>12

LEMMA StepPromised ==
  ASSUME IInv, [Next]_vars
  PROVE  Promised
  <1>1. Placed
    BY DEF IInv
  <1> QED
    BY <1>1, SendRequestKept, SendOtherKept, TakeKept, EndsKept, RetryKept, OthersMoved, ServeNoTableKept,
       ServeFramedKept, ServeCellsKept, PollAnswerKept, FirmwareKept DEF Next

LEMMA InitPromised == Init => Placed /\ Contract!Init
  <1> SUFFICES ASSUME Init PROVE Placed /\ Contract!Init
    OBVIOUS
  <1>1. /\ requests = <<>> /\ handed = {} /\ denied = {} /\ done = [r \in Requests |-> 0]
        /\ answers = [r \in Requests |-> <<>>]
        /\ Len(rx) = 1 /\ rx[1].kind = "catalog"
    BY DEF Init
  <1>2. Once(requests) /\ QueuedOnce(rx) /\ \A r : ~InSeq(r, requests) /\ ~Queued(rx, r)
    BY <1>1 DEF Once, QueuedOnce, InSeq, Queued, Asks
  <1>3. \A r \in Requests : ~Waiting(r) /\ answers[r] = <<>> /\ done[r] = 0
    BY <1>1, <1>2, WaitingIs
  <1>4. <<>> \in Seq(Results)
    OBVIOUS
  <1>5. \A r \in Requests : PlacedOf(r)
    BY <1>1, <1>2, <1>3 DEF PlacedOf
  <1>6. \A r \in Requests : Known(r) = "idle"
    BY <1>3, KnownIs
  <1> QED
    BY <1>1, <1>2, <1>4, <1>5, <1>6 DEF Placed, Contract!Init

\* Whichever way a request goes, by the firmware's channels or into its cells,
\* and whatever becomes of the memory and the session meanwhile, a probe
\* session keeps the contract of tuning requests.
THEOREM Refines == Spec => KeepsContract
  <1>1. Init => IInv /\ Contract!Init
    BY InitTypes, InitPromised DEF IInv
  <1>2. IInv /\ [Next]_vars => IInv'
    BY StepTypes, StepPromised DEF IInv, Promised
  <1>3. IInv /\ [Next]_vars => [Contract!Next]_(<<[r \in Requests |-> Known(r)], done>>)
    BY StepPromised DEF Promised, Stutter
  <1> QED
    BY <1>1, <1>2, <1>3, PTL DEF Spec, Contract!Spec, KeepsContract

\* The session's ages, verdicts and outcome are of their types; no request is
\* answered twice, or done twice by the firmware and the cells together.
THEOREM TypeCorrect == Spec => []TypeOK
  <1>1. Init => IInv
    BY InitTypes, InitPromised DEF IInv
  <1>2. IInv /\ [Next]_vars => IInv'
    BY StepTypes, StepPromised DEF IInv, Promised
  <1>3. IInv => TypeOK
    <2> SUFFICES ASSUME IInv PROVE TypeOK
      OBVIOUS
    <2>1. \A i \in 1 .. Len(requests) : requests[i] \in Requests
      BY DEF IInv, Types
    <2>2. tuner.elf \in Builds \union {"none"} /\ tuner.check \in {"none", "checking", "matches", "differs"}
      BY DEF IInv, Types, Tuners, Checks
    <2>3. ASSUME NEW r \in Requests PROVE Len(answers[r]) <= 1 /\ done[r] \in 0 .. 1
      <3>1. PlacedOf(r)
        BY DEF IInv, Placed
      <3>2. answers[r] = <<>> \/ \E a \in Results : answers[r] = <<a>>
        BY <3>1 DEF PlacedOf
      <3>3. Len(<<>>) = 0 /\ \A a : Len(<<a>>) = 1
        OBVIOUS
      <3>4. Len(answers[r]) \in {0, 1}
        BY <3>2, <3>3
      <3>5. done[r] \in {0, 1}
        BY <3>1 DEF PlacedOf
      <3>6. \A n \in {0, 1} : n <= 1 /\ n \in 0 .. 1
        OBVIOUS
      <3> QED
        BY <3>4, <3>5, <3>6, Zenon
    <2>4. failing \in Ages /\ opened \in Ages /\ quiet \in Ages
      BY ProbeAssumption DEF IInv, Types, Ages
    <2> QED
      BY <2>1, <2>2, <2>3, <2>4 DEF IInv, Types, TypeOK, States
  <1> QED
    BY <1>1, <1>2, <1>3, PTL DEF Spec
==============================================================================
