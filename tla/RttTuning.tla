------------------------------ MODULE RttTuning ------------------------------
(***************************************************************************)
(* Tuning requests over the firmware's RTT control channel, sent from a    *)
(* probe session (studio-core/src/rtt_tuning.rs).                          *)
(*                                                                         *)
(* RttTuning pipelines a request behind a LEASE frame, renews the lease    *)
(* from then on and matches replies to requests by sequence number.  The   *)
(* firmware (external) holds one lease for all its tools, serves the       *)
(* frames in order and answers each; it drops a reply when the up channel  *)
(* is full, and a reset empties both channels and forgets the lease.       *)
(* Faults names which of these the environment may do.  After a session    *)
(* another may connect to the same target: it starts with a new token and  *)
(* sequence numbers from 0, on channels that hold no frame any more or,    *)
(* with the fault "leftover", on the channels as they are.                 *)
(*                                                                         *)
(* A request is named by its position in the order of submission.  lost,   *)
(* busy, ok ... stand for the status bytes and messages the code tells     *)
(* apart.  Time is abstract: a renewal may be due, and a request late,     *)
(* whenever the code looks.                                                *)
(***************************************************************************)
EXTENDS Integers, Sequences

CONSTANTS
  Requests,   \* the requests the session is asked to send
  DownCap,    \* frames the control channel holds
  MaxSeq,     \* bound on the frames a session sends: seq is a u16 in the code
  MaxSessions,\* bound on the sessions, one after the other
  Faults      \* subset of AllFaults

AllFaults == {"full", "dropped", "late", "reset", "lapse", "takeover", "shut",
              "leftover"}

ASSUME TuningAssumption ==
  /\ DownCap \in Nat \ {0}
  /\ MaxSeq \in Nat /\ MaxSessions \in Nat
  /\ Faults \subseteq AllFaults
  /\ {"LEASE", "RELEASE", "nobody"} \cap Requests = {}

VARIABLES
  session,    \* the session, which is also its token
  seq,        \* the last sequence number used
  leased,     \* leased_at.is_some()
  refused,    \* lease_refused.is_some()
  pending,    \* what waits for a reply under each sequence number, or "nobody"
  pc,         \* where the session thread is: "idle", "send", "reading", "closed"
  cur,        \* the request being submitted
  answers,    \* the replies each request was given (history of the channel)
  down, up,   \* the two channels' frames
  holder,     \* whose token holds the firmware's lease, 0 if none
  applied,    \* how often the firmware carried out each request (history)
  ruling,     \* what the firmware said to the last LEASE (history)
  behind,     \* that ruling, when the firmware served each request (history)
  prompt      \* no reply was lost or late so far (history)

hostVars == <<session, seq, leased, refused, pending, pc, cur, answers>>
fwVars == <<holder, applied, ruling, behind, prompt>>
vars == <<hostVars, down, up, fwVars>>

Seqs == 1 .. MaxSeq
OtherTool == MaxSessions + 1
Whats == Requests \union {"LEASE", "RELEASE"}
Statuses == {"ok", "lost", "busy", "refused"}
Results == Statuses \union {"late", "full", "closed"}

\* The requests a reply is still expected for.
InFlight == {pending[s] : s \in Seqs} \cap Requests

Fresh(r) == answers[r] = <<>> /\ r \notin InFlight

Answer(r, result) == answers' = [answers EXCEPT ![r] = Append(@, result)]

------------------------------------------------------------------------------
(* Sending *)

\* RttTuning::frame and RttDuplex::write: the sequence number is used up
\* whether or not the frame fits.
FrameSent(what) ==
  /\ seq < MaxSeq /\ seq' = seq + 1
  /\ Len(down) < DownCap
  /\ down' = Append(down, [seq |-> seq + 1, by |-> session, what |-> what])

\* The channel has no room, is detached, or the memory access fails.
FrameFails(what) ==
  /\ "full" \in Faults
  /\ seq < MaxSeq /\ seq' = seq + 1
  /\ UNCHANGED down

\* submit, first half: no lease was asked for yet, so LEASE goes first; the
\* request fails with it.
SubmitLease(r) ==
  /\ pc = "idle" /\ ~leased /\ Fresh(r)
  /\ seq + 2 <= MaxSeq
  /\ \/ /\ FrameSent("LEASE")
        /\ pending' = [pending EXCEPT ![seq'] = "LEASE"]
        /\ leased' = TRUE
        /\ pc' = "send" /\ cur' = r
        /\ UNCHANGED answers
     \/ /\ FrameFails("LEASE")
        /\ Answer(r, "full")
        /\ UNCHANGED <<pending, leased, pc, cur>>
  /\ UNCHANGED <<session, refused, up, fwVars>>

\* submit with a lease asked for before.
SubmitLeased(r) ==
  /\ pc = "idle" /\ leased /\ Fresh(r)
  /\ seq + 1 <= MaxSeq
  /\ cur' = r
  /\ pc' = "send"
  /\ UNCHANGED <<session, seq, leased, refused, pending, answers, down, up, fwVars>>

\* submit, second half: the request itself.
SubmitSend ==
  /\ pc = "send"
  /\ pc' = "idle" /\ cur' = "nobody"
  /\ \/ /\ FrameSent(cur)
        /\ pending' = [pending EXCEPT ![seq'] = cur]
        /\ UNCHANGED answers
     \/ /\ FrameFails(cur)
        /\ Answer(cur, "full")
        /\ UNCHANGED pending
  /\ UNCHANGED <<session, leased, refused, up, fwVars>>

------------------------------------------------------------------------------
(* Polling *)

\* poll, first part: renew the lease when it is due, then read on if anybody
\* waits for a reply.
Poll(due) ==
  /\ pc = "idle"
  /\ IF due
     THEN /\ leased
          /\ \/ /\ FrameSent("LEASE")
                /\ pending' = [pending EXCEPT ![seq'] = "LEASE"]
             \/ FrameFails("LEASE") /\ UNCHANGED pending
     ELSE UNCHANGED <<seq, down, pending>>
  /\ pc' = IF \A s \in Seqs : pending'[s] = "nobody" THEN "idle" ELSE "reading"
  /\ UNCHANGED <<session, leased, refused, cur, answers, up, fwVars>>

\* Mutant: a reply goes to whoever has waited longest.
Taker_Oldest(f) ==
  IF \A s \in Seqs : pending[s] = "nobody" THEN f.seq
  ELSE CHOOSE s \in Seqs : pending[s] # "nobody" /\ \A t \in 1 .. s - 1 : pending[t] = "nobody"

\* pending.remove(&f.seq)
Taker(f) == f.seq

\* Mutant: why a LEASE was refused is not kept.
Refusal_Forgotten(f) == FALSE

\* lease_refused after the reply f
Refusal(f) == IF f.what = "LEASE" THEN f.status # "ok" ELSE refused

\* poll, second part, for each frame read: its sequence number alone finds
\* what waits for it; a reply nobody waits for any more is dropped whole.
PollFrame ==
  LET f == Head(up)
      waiting == pending[Taker(f)]
  IN  /\ pc = "reading" /\ up # <<>>
      /\ up' = Tail(up)
      /\ IF waiting = "nobody"
         THEN UNCHANGED <<pending, refused, leased, answers>>
         ELSE /\ pending' = [pending EXCEPT ![Taker(f)] = "nobody"]
              /\ refused' = Refusal(f)
              /\ leased' = (leased /\ f.status # "lost"
                                   /\ (f.what = "LEASE" => f.status = "ok"))
              /\ IF waiting \in Requests
                 THEN answers' = [answers EXCEPT ![waiting] =
                        Append(@, IF f.status = "lost" /\ refused' THEN "busy" ELSE f.status)]
                 ELSE UNCHANGED answers
      /\ UNCHANGED <<session, seq, pc, cur, down, fwVars>>

\* Every request whose frame is in S is answered with the result.
AnswerAll(S, result) ==
  answers' = [r \in Requests |-> IF \E s \in S : pending[s] = r
                                 THEN Append(answers[r], result) ELSE answers[r]]

\* Mutant: nothing times out.
PollEnd_Patient(late) ==
  /\ pc = "reading"
  /\ up = <<>> \/ "full" \in Faults
  /\ late = {}
  /\ pc' = "idle"
  /\ UNCHANGED <<session, seq, leased, refused, pending, cur, answers, down, up, fwVars>>

\* poll, last part: the channel is drained, or reading it failed; what waits
\* past its deadline is answered and forgotten.
PollEnd(late) ==
  /\ pc = "reading"
  /\ up = <<>> \/ "full" \in Faults
  /\ late = {} \/ "late" \in Faults
  /\ pc' = "idle"
  /\ AnswerAll(late, "late")
  /\ pending' = [s \in Seqs |-> IF s \in late THEN "nobody" ELSE pending[s]]
  /\ prompt' = (prompt /\ late = {})
  /\ UNCHANGED <<session, seq, leased, refused, cur, down, up, holder, applied, ruling, behind>>

\* close: RELEASE if the memory is (still) open and the lease was asked for, as far
\* as it fits, and an answer for all that still wait.
Close(memory) ==
  /\ pc = "idle"
  /\ memory \/ "shut" \in Faults
  /\ pc' = "closed"
  /\ IF memory /\ leased
     THEN FrameSent("RELEASE") \/ FrameFails("RELEASE")
     ELSE UNCHANGED <<seq, down>>
  /\ leased' = FALSE
  /\ AnswerAll(Seqs, "closed")
  /\ pending' = [s \in Seqs |-> "nobody"]
  /\ UNCHANGED <<session, refused, cur, up, fwVars>>

\* A new session's RttTuning, attached to the same channels.
Connect ==
  /\ pc = "closed" /\ session < MaxSessions
  /\ (down = <<>> /\ up = <<>>) \/ "leftover" \in Faults
  /\ session' = session + 1
  /\ seq' = 0 /\ refused' = FALSE
  /\ pc' = "idle"
  /\ UNCHANGED <<leased, pending, cur, answers, down, up, fwVars>>

------------------------------------------------------------------------------
(* The firmware and the other tools (external) *)

\* The reply goes out, or is dropped whole when the up channel is full.
Reply(f, status) ==
  \/ up' = Append(up, [seq |-> f.seq, what |-> f.what, status |-> status]) /\ UNCHANGED prompt
  \/ "dropped" \in Faults /\ prompt' = FALSE /\ UNCHANGED up

ServeLease ==
  LET f == Head(down)
      granted == holder \in {0, f.by}
  IN  /\ down # <<>> /\ f.what = "LEASE"
      /\ down' = Tail(down)
      /\ holder' = IF granted THEN f.by ELSE holder
      /\ ruling' = IF granted THEN "ok" ELSE "busy"
      /\ Reply(f, ruling')
      /\ UNCHANGED <<hostVars, applied, behind>>

ServeRelease ==
  LET f == Head(down)
  IN  /\ down # <<>> /\ f.what = "RELEASE"
      /\ down' = Tail(down)
      /\ holder' = IF holder = f.by THEN 0 ELSE holder
      /\ Reply(f, "ok")
      /\ UNCHANGED <<hostVars, applied, ruling, behind>>

\* WRITE, DISCARD, SAVE: refused without the lease, else carried out or
\* refused for a reason of its own.
ServeRequest ==
  LET f == Head(down)
  IN  /\ down # <<>> /\ f.what \in Requests
      /\ down' = Tail(down)
      /\ behind' = [behind EXCEPT ![f.what] = ruling]
      /\ IF holder = f.by
         THEN \/ /\ applied' = [applied EXCEPT ![f.what] = @ + 1]
                 /\ Reply(f, "ok")
              \/ Reply(f, "refused") /\ UNCHANGED applied
         ELSE Reply(f, "lost") /\ UNCHANGED applied
      /\ UNCHANGED <<hostVars, holder, ruling>>

\* The firmware resets: it comes up with empty channels and no lease.
FirmwareReset ==
  /\ "reset" \in Faults
  /\ down' = <<>> /\ up' = <<>>
  /\ holder' = 0 /\ ruling' = "none"
  /\ prompt' = FALSE
  /\ UNCHANGED <<hostVars, applied, behind>>

\* The lease lapses: nobody renewed it in time.
LeaseLapses ==
  /\ "lapse" \in Faults
  /\ holder # 0
  /\ holder' = 0
  /\ UNCHANGED <<hostVars, down, up, applied, ruling, behind, prompt>>

\* Another tool takes the free lease over its own link.
Takeover ==
  /\ "takeover" \in Faults
  /\ holder = 0
  /\ holder' = OtherTool
  /\ UNCHANGED <<hostVars, down, up, applied, ruling, behind, prompt>>

------------------------------------------------------------------------------
Init ==
  /\ session = 1 /\ seq = 0 /\ leased = FALSE /\ refused = FALSE
  /\ pending = [s \in Seqs |-> "nobody"]
  /\ pc = "idle" /\ cur = "nobody"
  /\ answers = [r \in Requests |-> <<>>]
  /\ down = <<>> /\ up = <<>>
  /\ holder = 0
  /\ applied = [r \in Requests |-> 0]
  /\ ruling = "none" /\ behind = [r \in Requests |-> "none"] /\ prompt = TRUE

Polls == \E due \in BOOLEAN : Poll(due)
PollEnds == \E late \in SUBSET {s \in Seqs : pending[s] # "nobody"} : PollEnd(late)
Serves == ServeLease \/ ServeRelease \/ ServeRequest

Next ==
  \/ \E r \in Requests : SubmitLease(r) \/ SubmitLeased(r)
  \/ SubmitSend
  \/ Polls \/ PollFrame \/ PollEnds
  \/ \E memory \in BOOLEAN : Close(memory)
  \/ Connect
  \/ ServeLease \/ ServeRelease \/ ServeRequest
  \/ FirmwareReset \/ LeaseLapses \/ Takeover

Spec == Init /\ [][Next]_vars

\* The session thread keeps polling, and every deadline is past at some poll.
\* The firmware owes nothing.
Fairness ==
  /\ WF_vars(SubmitSend) /\ WF_vars(Poll(FALSE)) /\ WF_vars(PollFrame)
  /\ WF_vars(PollEnds)
  /\ \A s \in Seqs : SF_vars(\E late \in SUBSET Seqs :
                              s \in late /\ pending[s] # "nobody" /\ PollEnd(late))

FairSpec == Spec /\ Fairness

------------------------------------------------------------------------------
(* Properties *)

Frames == [seq : Seqs, by : Nat, what : Whats]
ReplyFrames == [seq : Seqs, what : Whats, status : Statuses]

TypeOK ==
  /\ session \in Nat /\ seq \in 0 .. MaxSeq
  /\ leased \in BOOLEAN /\ refused \in BOOLEAN
  /\ pending \in [Seqs -> Requests \union {"LEASE", "nobody"}]
  /\ pc \in {"idle", "send", "reading", "closed"}
  /\ cur \in Requests \union {"nobody"} /\ (pc = "send" <=> cur # "nobody")
  /\ answers \in [Requests -> Seq(Results)]
  /\ down \in Seq(Frames) /\ up \in Seq(ReplyFrames)
  /\ holder \in Nat
  /\ applied \in [Requests -> Nat]
  /\ ruling \in {"none", "ok", "busy"}
  /\ behind \in [Requests -> {"none", "ok", "busy"}] /\ prompt \in BOOLEAN

\* What the asker knows of a request.
\* No state of the contract allows for a second answer.
Known(r) ==
  IF answers[r] # <<>>
  THEN CASE Len(answers[r]) > 1 -> "answered twice"
         [] Head(answers[r]) = "ok" -> "ok"
         [] Head(answers[r]) \in {"late", "closed"} -> "unknown"
         [] OTHER -> "refused"
  ELSE IF r \in InFlight \/ cur = r THEN "waiting" ELSE "idle"

Contract == INSTANCE TuneRequests WITH state <- [r \in Requests |-> Known(r)], done <- applied

\* The pipelined requests keep the contract of tuning requests: "ok" means
\* carried out exactly once, a refusal or a full channel means never.
KeepsContract == Contract!Spec

\* With no reply lost or late, the reason a request is refused with is right:
\* another tool's lease exactly if the LEASE it was sent behind was refused.
RefusalExplained ==
  prompt => \A r \in Requests : answers[r] # <<>> =>
    /\ Head(answers[r]) = "busy" => behind[r] = "busy"
    /\ Head(answers[r]) = "lost" => behind[r] # "busy"

\* Everything submitted is answered, whatever the firmware does.
Answered == \A r \in Requests : r \in InFlight ~> answers[r] # <<>>
==============================================================================
