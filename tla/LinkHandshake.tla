---------------------------- MODULE LinkHandshake ----------------------------
(***************************************************************************)
(* How a framed link connects (studio-core/src/link.rs, Worker::handshake, *)
(* call, read_catalog): HELLO, at most three times; LEASE and one CATALOG  *)
(* request per page, once each.  Every call sends a frame and reads until  *)
(* the reply with its command and number is there or its time is up.       *)
(*                                                                         *)
(* The firmware (external) answers with its protocol version, grants the   *)
(* lease unless another tool holds it, and sends as many entries of its    *)
(* catalog per page as it likes.  Frames may be lost both ways, and a      *)
(* reply may come after its call gave up.  The entries of the catalog are  *)
(* 1 .. Total.                                                             *)
(***************************************************************************)
EXTENDS Integers, Sequences

CONSTANTS
  Attempts,   \* HELLO_ATTEMPTS
  Total,      \* entries of the firmware's catalog
  MaxPage,    \* entries of a page
  Versions    \* protocol versions the firmware may speak; ours is 1

ASSUME HandshakeAssumption ==
  /\ Attempts \in Nat \ {0} /\ Total \in Nat /\ MaxPage \in Nat
  /\ Versions \subseteq Nat

VARIABLES
  pc,       \* the call under way: "HELLO", "LEASE", "CATALOG"; "connected", "failed"
  seq,      \* its sequence number
  tries,    \* HELLOs sent
  entries,  \* the catalog read so far
  down, up, \* the frames on the way to the firmware and back
  version,  \* the version the firmware speaks
  holder,   \* the tool that holds the firmware's lease
  granted   \* it granted ours (history)

vars == <<pc, seq, tries, entries, down, up, version, holder, granted>>

\* Worker::send; a catalog request names the first entry it wants.
Send(cmd, offset) ==
  /\ seq' = seq + 1
  /\ down' = Append(down, [cmd |-> cmd, seq |-> seq + 1, offset |-> offset])

Calling == pc \in {"HELLO", "LEASE", "CATALOG"}

\* The reply of the call under way.
Mine(f) == f.cmd = pc /\ f.seq = seq

\* Frames nobody called for are read and dropped.
ReadOther ==
  /\ Calling /\ up # <<>> /\ ~Mine(Head(up))
  /\ up' = Tail(up)
  /\ UNCHANGED <<pc, seq, tries, entries, down, version, holder, granted>>

Arrived(cmd) == pc = cmd /\ up # <<>> /\ Mine(Head(up)) /\ up' = Tail(up)

Fail == pc' = "failed" /\ UNCHANGED <<seq, down>>

\* HELLO is answered: LEASE is next, if the versions agree.
HelloReply ==
  /\ Arrived("HELLO")
  /\ IF Head(up).version = 1
     THEN pc' = "LEASE" /\ Send("LEASE", 0)
     ELSE Fail
  /\ UNCHANGED <<tries, entries, version, holder, granted>>

\* Mutant: any answer will do.
LeaseReply_Any ==
  /\ Arrived("LEASE")
  /\ pc' = "CATALOG" /\ Send("CATALOG", Len(entries))
  /\ UNCHANGED <<tries, entries, version, holder, granted>>

\* LEASE is answered: read the catalog, unless another tool holds the lease.
LeaseReply ==
  /\ Arrived("LEASE")
  /\ IF Head(up).status = "ok"
     THEN pc' = "CATALOG" /\ Send("CATALOG", Len(entries))
     ELSE Fail
  /\ UNCHANGED <<tries, entries, version, holder, granted>>

\* A page has arrived: the next one is asked for until the catalog is complete.
\* A page without entries would never complete it.
CatalogReply ==
  LET page == Head(up).page
      sofar == entries \o page
  IN  /\ Arrived("CATALOG")
      /\ entries' = sofar
      /\ CASE Len(sofar) >= Head(up).total -> pc' = "connected" /\ UNCHANGED <<seq, down>>
           [] Len(sofar) < Head(up).total /\ page = <<>> -> Fail
           [] OTHER -> UNCHANGED pc /\ Send("CATALOG", Len(sofar))
      /\ UNCHANGED <<tries, version, holder, granted>>

\* Only HELLO is tried again.
MayRetry == pc = "HELLO" /\ tries < Attempts

\* Mutant: only HELLO is given up.
CallTimesOut_HelloOnly ==
  /\ pc = "HELLO"
  /\ IF MayRetry
     THEN pc' = "HELLO" /\ Send("HELLO", 0) /\ tries' = tries + 1
     ELSE Fail /\ UNCHANGED tries
  /\ UNCHANGED <<entries, up, version, holder, granted>>

\* The time of the call is up.
CallTimesOut ==
  /\ Calling
  /\ IF MayRetry
     THEN pc' = "HELLO" /\ Send("HELLO", 0) /\ tries' = tries + 1
     ELSE Fail /\ UNCHANGED tries
  /\ UNCHANGED <<entries, up, version, holder, granted>>

\* The stream breaks; the session has nothing to say good-bye with.
StreamFails ==
  /\ Calling
  /\ Fail
  /\ UNCHANGED <<tries, entries, up, version, holder, granted>>

------------------------------------------------------------------------------
(* The firmware and the link (external) *)

Served(cmd) == down # <<>> /\ Head(down).cmd = cmd /\ down' = Tail(down)

Reply(status, page) ==
  up' = Append(up, [cmd |-> Head(down).cmd, seq |-> Head(down).seq, status |-> status,
                    version |-> version, total |-> Total, page |-> page])

ServeHello ==
  /\ Served("HELLO")
  /\ Reply("ok", <<>>)
  /\ UNCHANGED <<pc, seq, tries, entries, version, holder, granted>>

ServeLease ==
  /\ Served("LEASE")
  /\ holder' = IF holder = "other" THEN "other" ELSE "us"
  /\ granted' = (granted \/ holder # "other")
  /\ Reply(IF holder = "other" THEN "busy" ELSE "ok", <<>>)
  /\ UNCHANGED <<pc, seq, tries, entries, version>>

ServeCatalog ==
  /\ Served("CATALOG")
  /\ \E n \in 0 .. MaxPage :
       /\ Head(down).offset + n <= Total
       /\ Reply("ok", [i \in 1 .. n |-> Head(down).offset + i])
  /\ UNCHANGED <<pc, seq, tries, entries, version, holder, granted>>

\* Nobody renews the lease while the catalog is read.
LeaseLapses ==
  /\ holder # "none" /\ holder' = "none"
  /\ UNCHANGED <<pc, seq, tries, entries, down, up, version, granted>>

LoseDown ==
  /\ down # <<>> /\ down' = Tail(down)
  /\ UNCHANGED <<pc, seq, tries, entries, up, version, holder, granted>>

LoseUp ==
  /\ up # <<>> /\ up' = Tail(up)
  /\ UNCHANGED <<pc, seq, tries, entries, down, version, holder, granted>>

------------------------------------------------------------------------------
Init ==
  /\ pc = "HELLO" /\ seq = 1 /\ tries = 1 /\ entries = <<>>
  /\ down = <<[cmd |-> "HELLO", seq |-> 1, offset |-> 0]>> /\ up = <<>>
  /\ version \in Versions /\ holder \in {"none", "other"} /\ granted = FALSE

Next ==
  \/ ReadOther \/ HelloReply \/ LeaseReply \/ CatalogReply
  \/ CallTimesOut \/ StreamFails
  \/ ServeHello \/ ServeLease \/ ServeCatalog \/ LeaseLapses \/ LoseDown \/ LoseUp

Spec == Init /\ [][Next]_vars

\* The time of every call runs out.
FairSpec == Spec /\ WF_vars(CallTimesOut)

------------------------------------------------------------------------------
(* Properties *)

Commands == {"HELLO", "LEASE", "CATALOG"}

TypeOK ==
  /\ pc \in Commands \union {"connected", "failed"}
  /\ seq \in 1 .. Attempts + 2 + Total
  /\ tries \in 1 .. Attempts
  /\ entries \in Seq(1 .. Total)
  /\ \A i \in 1 .. Len(down) : down[i].cmd \in Commands /\ down[i].seq \in 1 .. seq
  /\ \A i \in 1 .. Len(up) : up[i].cmd \in Commands /\ up[i].seq \in 1 .. seq
  /\ version \in Versions /\ holder \in {"none", "us", "other"} /\ granted \in BOOLEAN

\* A session connects only to a firmware of its protocol that granted it the
\* lease, and with the whole catalog: no entry twice, none left out, although
\* a HELLO may have been answered more than once (handshake, read_catalog).
ConnectedKnowsAll ==
  pc = "connected" =>
    /\ version = 1 /\ granted
    /\ entries = [i \in 1 .. Total |-> i]

\* A handshake comes to an end, whatever the firmware sends or fails to send.
Ends == <>(pc \in {"connected", "failed"})
==============================================================================
