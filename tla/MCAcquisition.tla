---- MODULE MCAcquisition ----
(*************************************************************************)
(* Three parts of acquisition that share no state, checked side by side: *)
(* a behaviour is one of a handshake, of a stream being decoded, or of   *)
(* sampling at a rate, and the other two parts rest.                     *)
(*************************************************************************)
EXTENDS LinkHandshake, Wire, Sampler

VARIABLE part

partVars == <<part>>
all == <<part, vars, wireVars, samplerVars>>

-----------------------------------------------------------------------------
(* Streams: frames and what may be between them. *)

Good == <<Encode(1, <<>>), Encode(2, <<7, MAGIC>>)>>
Damaged == [Encode(3, <<MAGIC, 9>>) EXCEPT ![6] = 5]

\* Noise: any byte, a mark alone, a header that promises more than comes or
\* more than may, a damaged frame, and nothing.
Noises == {<<>>, <<0>>, <<MAGIC>>, <<MAGIC, VERSION, 1, 2>>, <<MAGIC, VERSION, 1, MaxPayload + 1>>,
           <<MAGIC, 2, 1, 0>>, Damaged}
Idle == [i \in 1 .. HeaderLen + MaxPayload + CrcLen |-> 0]

Streams == {a \o Good[1] \o b \o Good[2] \o c \o Idle : a, b, c \in Noises}
Sent == <<[cmd |-> 1, payload |-> <<>>], [cmd |-> 2, payload |-> <<7, MAGIC>>]>>

-----------------------------------------------------------------------------
(* Values to watch, in memory whose bytes change with time. *)

Item(id, address, kind, width) ==
  [id |-> id, address |-> address, kind |-> kind, width |-> width, bit |-> 0, bits |-> NoBits]
Bits(item, bit, bits) == [item EXCEPT !.bit = bit, !.bits = bits]

Half == Item(1, 0, "unsigned", 2)
Small == Item(2, 3, "signed", 1)
Field == Bits(Item(3, 3, "signed", 4), 11, 6)
Far == Item(4, 9, "bool", 1)
Blob == Item(5, 2, "raw", 12)
Items == {Half, Small, Field, Far, Blob}

MCWatches == {<<Far, Small, Half, Field>>, <<Half, Field, Blob, Small>>}
MCByte(a, t) == (37 * a + 101 * t + 129) % 256
MCFailures == {{}, {2}}

-----------------------------------------------------------------------------

Resting == /\ version = 1 /\ holder = "none" /\ Init
AllInit ==
  \/ part = "handshake" /\ Init /\ WireInit(<<>>) /\ SamplerInit(2)
  \/ part = "wire" /\ Resting /\ (\E s \in Streams : WireInit(s)) /\ SamplerInit(2)
  \/ part = "sampling" /\ Resting /\ WireInit(<<>>) /\ (\E p \in Periods : SamplerInit(p))

AllNext ==
  \/ part = "handshake" /\ Next /\ UNCHANGED <<partVars, wireVars, samplerVars>>
  \/ part = "wire" /\ Feed /\ UNCHANGED <<partVars, vars, samplerVars>>
  \/ part = "sampling" /\ SamplerNext /\ UNCHANGED <<partVars, vars, wireVars>>

AllSpec == AllInit /\ [][AllNext]_all /\ WF_all(part = "handshake" /\ CallTimesOut /\ UNCHANGED <<partVars, wireVars, samplerVars>>)

-----------------------------------------------------------------------------

\* A handshake comes to an end, whatever the firmware sends or fails to send.
HandshakeEnds == part = "handshake" => Ends

\* Frames come out as they went in, in order and none invented, whatever
\* comes between them and however the bytes are split; once the line has been
\* idle for a frame's length none is held back (Decoder::feed).
FramesRecovered ==
  part = "wire" =>
    /\ IsPrefix(found, Sent)
    /\ stream = <<>> => found = Sent
==============================================================================
