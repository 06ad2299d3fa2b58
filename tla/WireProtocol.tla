----------------------------- MODULE WireProtocol -----------------------------
(***************************************************************************)
(* The wire, in three parts that share nothing: the stream of frames       *)
(* (FrameDecoder), the setup of a tunnel (TunnelSetup), and here the       *)
(* payloads and the broker's requests as they arrive, whole or with some   *)
(* of their bytes not as they were written.  A behaviour is about one of   *)
(* the three; the others stay idle.                                        *)
(***************************************************************************)
EXTENDS FrameDecoder, TunnelSetup, BrokerProtocol

CONSTANTS
    Messages,       \* what is written: records with a codec and a message
    Values,         \* the values a byte may change to
    MaxChanges      \* bound on the changes of one payload

VARIABLES
    written,        \* the message and its codec
    payload,        \* the bytes that arrive
    changes         \* number of changes since it was written

wireVars == <<written, payload, changes>>
wholeVars == <<streamVars, setupVars, wireVars>>

encode(w) ==
    CASE w.codec = "CLIENT_HELLO" -> {encode_client_hello(m) : m \in {x \in {w.message} : hello_is_valid(x)}}
      [] w.codec = "IP_ASSIGN" ->
            {encode_ip_assignment(m) : m \in {x \in {w.message} : validate_ip_assignment(x)}}
      [] w.codec = "PING" -> {encode_liveness_probe(w.message)}
      [] w.codec = "ERROR" -> {encode_error_message(m) : m \in {x \in {w.message} : error_is_valid(x)}}
      [] w.codec = "CLOSE" -> {encode_close_message(w.message)}
      [] w.codec = "broker" -> encode_request(w.message)

decode(codec, data) ==
    CASE codec = "CLIENT_HELLO" -> decode_client_hello(data)
      [] codec = "IP_ASSIGN" -> decode_ip_assignment(data)
      [] codec = "PING" -> decode_liveness_probe(data)
      [] codec = "ERROR" -> decode_error_message(data)
      [] codec = "CLOSE" -> decode_close_message(data)
      [] codec = "broker" -> decode_request(data)

WireStart == written \in Messages /\ encode(written) # {} /\ payload \in encode(written) /\ changes = 0
WireIdle == written = None /\ payload = <<>> /\ changes = MaxChanges
SetupIdle ==
    /\ setup = None /\ stage = "idle"
    /\ server = None /\ client = None /\ key = None /\ used_key = None
    /\ wire = <<>> /\ session = None /\ assignment = None /\ routes = {}
FramesIdle == stream = <<>> /\ pushed = 0 /\ decoder = NewDecoder /\ returned = <<>>

WholeInit ==
    \/ StreamInit /\ SetupIdle /\ WireIdle
    \/ FramesIdle /\ SetupInit /\ WireIdle
    \/ FramesIdle /\ SetupIdle /\ WireStart

Change(i, value) == payload' = [payload EXCEPT ![i] = value] /\ payload' # payload
Shorten == payload # <<>> /\ payload' = Front(payload)
Lengthen(value) == payload' = Append(payload, value)

Distort ==
    /\ changes < MaxChanges
    /\ changes' = changes + 1
    /\ \/ \E i \in DOMAIN payload, value \in Values : Change(i, value)
       \/ Shorten
       \/ \E value \in Values : Lengthen(value)
    /\ UNCHANGED written

WholeNext ==
    \/ StreamNext /\ UNCHANGED <<setupVars, wireVars>>
    \/ SetupNext /\ UNCHANGED <<streamVars, wireVars>>
    \/ Distort /\ UNCHANGED <<streamVars, setupVars>>

WholeSpec == WholeInit /\ [][WholeNext]_wholeVars
-------------------------------------------------------------------------------
(* Writer and reader of control payloads and broker requests are inverse   *)
(* to each other: a message that can be written is read as it was, and the *)
(* only bytes a reader accepts are those the writer produces for what it   *)
(* read.  No message has two encodings, so no changed or reserved byte and *)
(* no missing or surplus one goes unnoticed where it carries nothing.      *)
CodecsAreExact ==
    changes < MaxChanges \/ payload # <<>> =>
        /\ changes = 0 => decode(written.codec, payload) = {written.message}
        /\ \A m \in decode(written.codec, payload) :
              encode([codec |-> written.codec, message |-> m]) = {payload}
===============================================================================
