---------------------------- MODULE StunMessage ----------------------------
(***************************************************************************)
(* The STUN codec: what a message that is put together attribute by        *)
(* attribute looks like on the wire, and what a datagram reads as.         *)
(*                                                                         *)
(* Lengths, padding and positions are those of the code.  The bytes of a   *)
(* value are not: a digest is the tuple of what it was computed over, so   *)
(* that two digests are equal when key, header and attributes were.  An    *)
(* attribute is [type, length, value], length without the padding.         *)
(***************************************************************************)
EXTENDS Integers, Sequences, SequencesExt

k_stun_header_size == 20
k_stun_attribute_header_size == 4
k_stun_message_integrity_size == 20

STUN_BINDING_REQUEST == 1            \* 0x0001
STUN_BINDING_RESPONSE == 257         \* 0x0101
STUN_BINDING_ERROR_RESPONSE == 273   \* 0x0111

STUN_ERROR_BAD_REQUEST == 400
STUN_ERROR_UNAUTHORIZED == 401

\* The length up to the next multiple of four: write_padding, consume_padding
Padded(length) == IF length % 4 = 0 THEN length ELSE length + (4 - (length % 4))

-----------------------------------------------------------------------------
(* Attributes *)

\* STUN_VALUE_BYTE_STRING, with copy_bytes
StunByteStringAttribute(type, length, value) ==
  [type |-> type, length |-> length, value |-> value]

StunUint32Attribute(type, value) == [type |-> type, length |-> 4, value |-> value]

StunUint64Attribute(type, value) == [type |-> type, length |-> 8, value |-> value]

\* set_address and _get_xored_ip for IPv4, the family of every socket here
StunXorAddressAttribute(type, addr) ==
  [type |-> type, length |-> 8, value |-> <<"xored", addr>>]

\* create_error_code, set_code (class and number) and set_reason
StunErrorCodeAttribute(code, reason_size) ==
  [type |-> "ERROR_CODE", length |-> 4 + reason_size,
   value |-> <<code \div 100, code % 100>>]

\* What write() of an attribute puts into the buffer.
BodySize(attr) ==
  IF attr.type \in {"USERNAME", "MESSAGE_INTEGRITY", "USE_CANDIDATE", "ERROR_CODE"}
  THEN Padded(attr.length) ELSE attr.length

\* The sum of a sequence of numbers; a recursive function can be proved about.
Total(s) ==
  LET sum[n \in 0..Len(s)] == IF n = 0 THEN 0 ELSE sum[n - 1] + s[n]
  IN  sum[Len(s)]

\* Bytes of written attributes, each with its type and length
WrittenSize(attrs) ==
  Total([i \in DOMAIN attrs |-> k_stun_attribute_header_size + BodySize(attrs[i])])

-----------------------------------------------------------------------------
(* Writing *)

NewStunMessage(type, id) == [type |-> type, length |-> 0, id |-> id, attrs |-> << >>]

\* The range of _length, a uint16_t
UINT16_RANGE == 65536

\* add_attribute
AddAttribute(msg, attr) ==
  [msg EXCEPT !.length = (@ + Padded(attr.length) + k_stun_attribute_header_size) % UINT16_RANGE,
              !.attrs = Append(@, attr)]

\* write(): the datagram
Write(msg) ==
  [type |-> msg.type, length |-> msg.length, id |-> msg.id, attrs |-> msg.attrs,
   size |-> k_stun_header_size + WrittenSize(msg.attrs)]

ComputeHmac(key, type, length, id, attrs) == <<"hmac", key, type, length, id, attrs>>

ComputeCrc32(type, length, id, attrs) == <<"crc", type, length, id, attrs>>

\* add_message_integrity: the attribute is added, which makes it part of the
\* length, and the digest is taken of everything before it.
AddMessageIntegrity(msg, password) ==
  AddAttribute(msg,
    StunByteStringAttribute("MESSAGE_INTEGRITY", k_stun_message_integrity_size,
      LET m == AddAttribute(msg, StunByteStringAttribute("MESSAGE_INTEGRITY",
                                   k_stun_message_integrity_size, << >>))
      IN  ComputeHmac(password, m.type, m.length, m.id, msg.attrs)))

\* add_fingerprint, in the same way
AddFingerprint(msg) ==
  AddAttribute(msg,
    StunUint32Attribute("FINGERPRINT",
      LET m == AddAttribute(msg, StunUint32Attribute("FINGERPRINT", << >>))
      IN  ComputeCrc32(m.type, m.length, m.id, msg.attrs)))

-----------------------------------------------------------------------------
(* Reading *)

\* validate_fingerprint looks for the attribute in the last eight bytes.
ValidateFingerprint(d) ==
  /\ d.size % 4 = 0 /\ d.size >= k_stun_header_size + 8
  /\ d.attrs # << >> /\ Last(d.attrs).type = "FINGERPRINT" /\ Last(d.attrs).length = 4
  /\ Last(d.attrs).value = ComputeCrc32(d.type, d.length, d.id, Front(d.attrs))

\* get_attrribute_value_type: the types read() keeps.  The others, ERROR-CODE
\* among them, are passed over.
KnownType == {"USERNAME", "MESSAGE_INTEGRITY", "PRIORITY"}

\* read(): whether it succeeds on a datagram whose attributes are whole
Readable(d) ==
  /\ (d.type \div 2048) % 2 = 0
  /\ d.length = d.size - k_stun_header_size

\* The attributes read() keeps of a type, by their places in the datagram
ReadAttributes(d, type) == {i \in DOMAIN d.attrs : d.attrs[i].type \in KnownType \cap {type}}

HasAttribute(d, type) == ReadAttributes(d, type) # {}

\* _get_attribute: the first one of the type
GetAttribute(d, type) == d.attrs[Min(ReadAttributes(d, type))]

\* get_error_code_value: no ERROR-CODE was kept.
GetErrorCodeValue(d) == IF HasAttribute(d, "ERROR_CODE")
                        THEN GetAttribute(d, "ERROR_CODE").value ELSE <<6, 0>>

\* Mutant: the length is taken as it is in the header.
ValidateMessageIntegrityNoAdjust(d, password) ==
  /\ d.size % 4 = 0 /\ d.length + k_stun_header_size = d.size
  /\ LET i == SelectInSeq(d.attrs, LAMBDA attr : attr.type = "MESSAGE_INTEGRITY")
     IN  i # 0 /\ d.attrs[i].value =
           ComputeHmac(password, d.type, d.length, d.id, SubSeq(d.attrs, 1, i - 1))

\* validate_message_integrity: where the attribute is, and the length the
\* header had when it was the last one
ValidateMessageIntegrity(d, password) ==
  /\ d.size % 4 = 0 /\ d.length + k_stun_header_size = d.size
  /\ LET i      == SelectInSeq(d.attrs, LAMBDA attr : attr.type = "MESSAGE_INTEGRITY")
         before == SubSeq(d.attrs, 1, i - 1)
         mi_pos == k_stun_header_size
                     + Total([j \in DOMAIN before |-> k_stun_attribute_header_size
                                                        + Padded(before[j].length)])
         mi_end == mi_pos + k_stun_attribute_header_size + k_stun_message_integrity_size
         length == IF d.size > mi_end THEN mi_end - k_stun_header_size ELSE d.length
     IN  i # 0 /\ d.attrs[i].value = ComputeHmac(password, d.type, length, d.id, before)

\* get_stun_success_response, get_stun_error_response, is_stun_request_type,
\* for a type without the bits of k_stun_type_mask
IsStunRequestType(type) == (type \div 16) % 2 = 0 /\ (type \div 256) % 2 = 0
GetStunSuccessResponse(type) == IF IsStunRequestType(type) THEN type + 256 ELSE -1
GetStunErrorResponse(type) == IF IsStunRequestType(type) THEN type + 272 ELSE -1

-----------------------------------------------------------------------------
(* RFC 5389, 6, 15.4 and 15.5, for comparison: a datagram is a header and    *)
(* padded attributes, the length is that of the attributes, the integrity    *)
(* covers what is before it under a header that ends with it, and the        *)
(* fingerprint is last and covers everything before it.                      *)

RfcSize(attrs) == Total([i \in DOMAIN attrs |-> 4 + 4 * ((attrs[i].length + 3) \div 4)])

RfcFramed(d) == d.length = RfcSize(d.attrs) /\ d.size = 20 + RfcSize(d.attrs)

RfcIntegrity(d, password) ==
  \E i \in DOMAIN d.attrs :
    /\ d.attrs[i].type = "MESSAGE_INTEGRITY"
    /\ \A j \in 1..(i - 1) : d.attrs[j].type # "MESSAGE_INTEGRITY"
    /\ d.attrs[i].value = ComputeHmac(password, d.type, RfcSize(SubSeq(d.attrs, 1, i)),
                                      d.id, SubSeq(d.attrs, 1, i - 1))

RfcFingerprint(d) ==
  LET n == Len(d.attrs) IN
  /\ n > 0 /\ d.attrs[n].type = "FINGERPRINT"
  /\ d.attrs[n].value = ComputeCrc32(d.type, RfcSize(d.attrs), d.id, SubSeq(d.attrs, 1, n - 1))

\* A datagram of an implementation of the RFC.  The last two attributes are
\* its integrity under a password, if it has one, and its fingerprint.
RfcMessage(type, id, attrs, signed, password) ==
  LET mi  == [type |-> "MESSAGE_INTEGRITY", length |-> 20,
              value |-> ComputeHmac(password, type, RfcSize(attrs) + 24, id, attrs)]
      all == IF signed THEN Append(attrs, mi) ELSE attrs
      n   == RfcSize(all) + 8
  IN  [type |-> type, length |-> n, id |-> id, size |-> 20 + n,
       attrs |-> Append(all, [type |-> "FINGERPRINT", length |-> 4,
                              value |-> ComputeCrc32(type, n, id, all)])]
============================================================================
