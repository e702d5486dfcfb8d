----------------------------- MODULE FrameReader -----------------------------
(***************************************************************************)
(* The reader of frames "<json length>+<binary length>:<json><binary>":    *)
(* RPCReq of native/src/rpc/main.rs, which UMQTReq of                      *)
(* native/src/transport/umqt.rs repeats with other fields. Each datagram   *)
(* gets a reader of its own; what does not fit into the block of the       *)
(* receiver is cut off before the reader sees it.                          *)
(***************************************************************************)
EXTENDS Naturals, Sequences, SequencesExt

CONSTANTS
  MaxJson, MaxBinary,   \* the longest json and binary of a frame
  MetaLimit             \* most bytes read in search of the end of the meta

ASSUME SizesAssumption == MaxJson > 0 /\ MaxBinary \in Nat /\ MetaLimit > 1

\* What a datagram says: a frame as the senders write it, or one that is not
\* well-formed: no colon anywhere, lengths that do not parse, a text that is
\* not json, a json that lacks a field.
Faults == {"none", "no_colon", "bad_meta", "not_json", "missing_field"}
Frames ==
  {f \in [fault : Faults, json : 0 .. MaxJson, binary : 0 .. MaxBinary] :
     f.fault = "none" => f.json > 0}

\* A byte is known by the part of the frame it is in and its place there; the
\* meta is cut down to the lengths and the colon.
Bytes(part, n) == [k \in 1 .. n |-> <<part, k>>]
Colon == <<"colon", 1>>
Encode(f) ==
  Bytes("meta", 1)
    \o (IF f.fault = "no_colon" THEN <<>> ELSE <<Colon>>)
    \o Bytes("json", f.json) \o Bytes("binary", f.binary)

VARIABLES
  frame,    \* the frame the sender wrote
  size,     \* how much of it the receiver's block holds
  req,      \* the reader
  result    \* "idle", "added", and then what read_block() returned

vars == <<frame, size, req, result>>

\* ctx stands for every field taken out of the json.
New == [buff |-> <<>>, binary |-> <<>>, has_meta |-> FALSE, has_body |-> FALSE,
        json_length |-> 0, binary_length |-> 0, ctx |-> "default"]

Init ==
  /\ frame \in Frames /\ size \in 0 .. Len(Encode(frame))
  /\ req = New /\ result = "idle"

\* add(): the datagram, as far as it fits into the block.
Add ==
  /\ result = "idle"
  /\ req' = [req EXCEPT !.buff = @ \o SubSeq(Encode(frame), 1, size)]
  /\ result' = "added"
  /\ UNCHANGED <<frame, size>>

-----------------------------------------------------------------------------
(* read_block(). A step takes and gives a reader and what is said so far:  *)
(* "more" (nothing yet), "none", "some" or "error".                        *)

Take(r, n) == SubSeq(r.buff, 1, n)
Drain(r, n) == SubSeq(r.buff, n + 1, Len(r.buff))
Says(r, what) == <<r, what>>
\* Most errors empty the buffer.
Fails(r) == Says([r EXCEPT !.buff = <<>>], "error")

\* Mutant of DrainMeta: the colon stays in the buffer.
KeepColon(r, end) == Drain(r, end - 1)
DrainMeta(r, end) == Drain(r, end)

\* The lengths, once the colon is there.
ReadMeta(r) ==
  LET end == CHOOSE k \in 1 .. Len(r.buff) : r.buff[k] = Colon
  IN  IF ~ Contains(r.buff, Colon)
      THEN IF Len(r.buff) > MetaLimit THEN Fails(r) ELSE Says(r, "none")
      ELSE IF frame.fault = "bad_meta" THEN Fails(r)
      ELSE Says([r EXCEPT !.has_meta = TRUE, !.buff = DrainMeta(r, end),
                          !.json_length = frame.json,
                          !.binary_length = frame.binary], "more")

\* The json, when all of it is there.
ReadJson(r) ==
  LET read == [r EXCEPT !.ctx = "read", !.buff = Drain(r, r.json_length)]
  IN  IF r.json_length = 0 \/ Len(r.buff) < r.json_length
      THEN Says(r, "more")
      ELSE IF \/ frame.fault = "not_json"
              \/ Take(r, r.json_length) # Bytes("json", frame.json)
      THEN Fails(r)
      ELSE IF frame.fault = "missing_field" THEN Says(r, "error")
      ELSE IF r.binary_length = 0
      THEN Says([read EXCEPT !.has_body = TRUE], "some")
      ELSE Says(read, "more")

\* Mutant of ReadBinary: what there is of the binary will do.
TakeRest(r) ==
  IF r.binary_length # 0
  THEN Says([r EXCEPT !.binary = r.buff, !.has_body = TRUE, !.buff = <<>>], "some")
  ELSE Says(r, "none")
\* The binary; that the json was read before is not looked at.
ReadBinary(r) ==
  LET n == r.binary_length
  IN  IF n # 0 /\ Len(r.buff) >= n
      THEN Says([r EXCEPT !.binary = Take(r, n), !.has_body = TRUE,
                          !.buff = Drain(r, n)], "some")
      ELSE Says(r, "none")

\* One part after the other, as long as there is no verdict.
ReadBody(r) ==
  LET m == IF r.has_meta THEN Says(r, "more") ELSE ReadMeta(r)
      j == IF m[2] = "more" THEN ReadJson(m[1]) ELSE m
  IN  IF j[2] = "more" THEN ReadBinary(j[1]) ELSE j

ReadBlock ==
  /\ result = "added"
  /\ LET done == IF req.has_body THEN Says(req, "some") ELSE ReadBody(req)
     IN  req' = done[1] /\ result' = done[2]
  /\ UNCHANGED <<frame, size>>

Next == Add \/ ReadBlock
Spec == Init /\ [][Next]_vars

-----------------------------------------------------------------------------
(* Properties.                                                             *)

Whole == size = Len(Encode(frame))
Payload == Bytes("binary", frame.binary)

\* A frame that fits into the block is read as it was written.
WholeIsRead ==
  result \notin {"idle", "added"} /\ frame.fault = "none" /\ Whole =>
    result = "some" /\ req.ctx = "read" /\ req.binary = Payload

\* Whatever is cut off or garbled, a frame the receiver acts on under its
\* prefix, topic and id is a well-formed one with all of its bytes. The reader
\* does take a cut json for the binary, but then under the default fields:
\* no topic, not reliable, id 0.
OnlyWholeIsActedOn ==
  result = "some" /\ req.ctx = "read" =>
    frame.fault = "none" /\ Whole /\ req.binary = Payload
=============================================================================
