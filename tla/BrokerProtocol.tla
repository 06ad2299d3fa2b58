---------------------------- MODULE BrokerProtocol ----------------------------
(***************************************************************************)
(* broker/broker_protocol.cpp: the requests of the user interface to a     *)
(* privileged broker, as bytes with the low byte first.  A request id is   *)
(* the quadruple of its 16-bit words, low word first, a profile id the     *)
(* sequence of its characters.  encode_request and decode_request return   *)
(* the set of their one result, and the empty set where the code throws.   *)
(* The byte helpers are the file's own append_u16, read_u16 and so on; the *)
(* prefix tells them from those of control_messages.cpp.                   *)
(***************************************************************************)
EXTENDS Naturals, SequencesExt

maximum_frame_size == 128
maximum_profile_id_size == 64
frame_header_size == 20
magic == <<80, 86, 66, 82>>
protocol_version == 1
Connect == 1
Disconnect == 2
GetStatus == 3

broker_append_u16(value) == <<value % 256, value \div 256>>
broker_append_u64(words) == FlattenSeq([i \in DOMAIN words |-> broker_append_u16(words[i])])
broker_read_u16(input, offset) == input[offset + 1] + 256 * input[offset + 2]
broker_read_u32(input, offset) == <<broker_read_u16(input, offset), broker_read_u16(input, offset + 2)>>
broker_read_u64(input, offset) == [i \in 1..4 |-> broker_read_u16(input, offset + 2 * (i - 1))]

valid_profile_id(id) ==
    /\ Len(id) \in 1..maximum_profile_id_size
    /\ \A i \in DOMAIN id : id[i] \in (97..122) \cup (65..90) \cup (48..57) \cup {45, 95}

encode_request(request) ==
    LET body == magic \o broker_append_u16(protocol_version) \o broker_append_u16(request.type)
                    \o broker_append_u64(request.request_id)
                    \o (IF request.type = Connect
                        THEN broker_append_u16(Len(request.profile_id)) \o request.profile_id ELSE <<>>)
    IN  {frame \in {broker_append_u16(Len(body)) \o <<0, 0>> \o body} :
            /\ request.request_id # <<0, 0, 0, 0>>
            /\ \/ request.type = Connect /\ valid_profile_id(request.profile_id)
               \/ request.type \in {Disconnect, GetStatus} /\ request.profile_id = <<>>
            /\ Len(frame) <= maximum_frame_size}

\* Mutant: a longer frame than the profile id needs is accepted.
ProfileFits(frame) ==
    /\ Len(frame) >= frame_header_size + 2
    /\ LET profile_size == broker_read_u16(frame, frame_header_size)
       IN  /\ profile_size <= maximum_profile_id_size
           /\ Len(frame) >= frame_header_size + 2 + profile_size
           /\ valid_profile_id(SubSeq(frame, frame_header_size + 3,
                                      frame_header_size + 2 + profile_size))

profile_is_whole(frame) ==
    /\ Len(frame) >= frame_header_size + 2
    /\ LET profile_size == broker_read_u16(frame, frame_header_size)
       IN  /\ profile_size <= maximum_profile_id_size
           /\ Len(frame) = frame_header_size + 2 + profile_size
           /\ valid_profile_id(SubSeq(frame, frame_header_size + 3, Len(frame)))

decode_request(frame) ==
    IF Len(frame) \notin frame_header_size..maximum_frame_size THEN {}
    ELSE LET request == [type |-> broker_read_u16(frame, 10), request_id |-> broker_read_u64(frame, 12),
                         profile_id |-> SubSeq(frame, frame_header_size + 3, Len(frame))]
         IN  {r \in {request} :
                /\ broker_read_u32(frame, 0) = <<Len(frame) - 4, 0>>
                /\ SubSeq(frame, 5, 8) = magic
                /\ broker_read_u16(frame, 8) = protocol_version
                /\ r.request_id # <<0, 0, 0, 0>>
                /\ \/ r.type = Connect /\ profile_is_whole(frame)
                   \/ r.type \in {Disconnect, GetStatus} /\ Len(frame) = frame_header_size}
===============================================================================
