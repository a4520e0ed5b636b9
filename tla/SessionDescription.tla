------------------------ MODULE SessionDescription ------------------------
(***************************************************************************)
(* Session descriptions: the contents, groups and transport infos of the   *)
(* offer, what its text tells a peer, and what the text of an answer is    *)
(* parsed into.  A content is its mid, "audio" or "video".  A ufrag, a     *)
(* password or a fingerprint is a tuple that names where it comes from.    *)
(***************************************************************************)
EXTENDS Integers, Sequences, SequencesExt

CONSTANT Nil    \* a null pointer, or nothing found

Empty == <<"", 0>>

\* SessionDescription of SdpType::k_offer or k_answer
NewSessionDescription(type) ==
  [type |-> type, contents |-> << >>, groups |-> << >>, infos |-> << >>,
   candidates |-> << >>]

AddContent(desc, mid) == [desc EXCEPT !.contents = Append(@, mid)]

\* ContentGroup::add_content_name
AddContentName(names, mid) == IF mid \in Range(names) THEN names ELSE Append(names, mid)

\* add_group; every group is a BUNDLE
AddGroup(desc, names) == [desc EXCEPT !.groups = Append(@, names)]

\* add_transport_info, with a certificate's fingerprint and the role
AddTransportInfo(desc, mid, params, fingerprint) ==
  [desc EXCEPT !.infos =
     Append(@, [mid |-> mid, ufrag |-> params.ufrag, pwd |-> params.pwd,
                fingerprint |-> fingerprint,
                role |-> IF desc.type = "offer" THEN "actpass" ELSE "active"])]

IsBundle(desc, mid) == \E names \in Range(desc.groups) : mid \in Range(names)

GetFirstBundleMid(desc) == IF desc.groups = << >> THEN "" ELSE desc.groups[1][1]

GetTransportInfo(desc, mid) ==
  LET i == SelectInSeq(desc.infos, LAMBDA td : td.mid = mid)
  IN  IF i = 0 THEN Nil ELSE desc.infos[i]

\* get_content and add_candidates
AddCandidates(desc, mid, candidates) ==
  IF mid \in Range(desc.contents)
  THEN [desc EXCEPT !.candidates = Append(@, [mid |-> mid, list |-> candidates])]
  ELSE desc

\* The payload types of AudioContentDescription and VideoContentDescription
Codecs(mid) == IF mid = "audio" THEN <<111>> ELSE <<107, 99>>

\* build_candidates: a private address is shown as the configured one.
ShownCandidate(c) ==
  [ip |-> IF c.network.private THEN "server_addr" ELSE c.network.ip, port |-> c.port]

\* to_string: the lines a peer makes use of.  Candidates are shown with the
\* content that has the channel's name.
OfferText(desc) ==
  [bundle |-> FlattenSeq(desc.groups),
   media  |-> [i \in DOMAIN desc.contents |->
     LET mid == desc.contents[i] IN
     [mid |-> mid, fmt |-> Codecs(mid), info |-> GetTransportInfo(desc, mid),
      candidates |->
        LET j == SelectInSeq(desc.candidates, LAMBDA e : e.mid = mid)
        IN  IF j = 0 THEN {} ELSE {ShownCandidate(c) : c \in desc.candidates[j].list}]]]

-----------------------------------------------------------------------------
(* The text of an answer: [crlf, lines], crlf whether "\r\n" occurs in it,   *)
(* and a line is [key, value, cr], cr whether it ends with '\r'.             *)

\* get_attribute: without "\r\n" the name of the attribute, otherwise what is
\* before the last character of the value
GetAttributeOf(line, crlf) ==
  IF line.value = Empty THEN Empty
  ELSE IF ~ crlf THEN <<line.key, 0>>
  ELSE IF line.cr THEN line.value ELSE <<"cut", 0>>

\* parse_transport_info for one line; Nil where it returns -1
ParseTransportInfo(td, line, crlf) ==
  LET v == GetAttributeOf(line, crlf) IN
  CASE line.key = "a=ice-ufrag"   -> IF v = Empty THEN Nil ELSE [td EXCEPT !.ufrag = v]
    [] line.key = "a=ice-pwd"     -> IF v = Empty THEN Nil ELSE [td EXCEPT !.pwd = v]
    [] line.key = "a=fingerprint" -> IF line.value = Empty \/ (crlf /\ ~ line.cr)
                                     THEN Nil ELSE [td EXCEPT !.fingerprint = line.value]
    [] OTHER -> td

NewTransportDescription ==
  [mid |-> "", ufrag |-> Empty, pwd |-> Empty, fingerprint |-> Empty, role |-> "none"]

\* One turn of the loop of set_remote_sdp.  No line has "m=group:BUNDLE": the
\* attribute is a=group, so that the answer has no groups.
ParseLine(acc, line, crlf) ==
  LET media == IF line.key = "m=" THEN line.value[1] ELSE acc.media
      known == media \in {"audio", "video"}
      td0   == IF ~ known THEN Nil
               ELSE IF line.key = "m=" THEN [acc.td[media] EXCEPT !.mid = media]
               ELSE acc.td[media]
      td1   == IF known THEN ParseTransportInfo(td0, line, crlf) ELSE Nil
  IN  IF ~ acc.ok THEN acc
      ELSE IF \/ line.key = "m=" /\ line.value = Empty
              \/ known /\ td1 = Nil
           THEN [acc EXCEPT !.ok = FALSE]
      ELSE [acc EXCEPT !.media = media,
                       !.contents = IF known /\ line.key = "m=" THEN Append(@, media) ELSE @,
                       !.td = IF known THEN [@ EXCEPT ![media] = td1] ELSE @]

\* The loop: what it has found once it is through with the lines
ParsedLines(sdp) ==
  LET parsed[k \in 0..Len(sdp.lines)] ==
        IF k = 0
        THEN [ok |-> TRUE, media |-> "", contents |-> << >>,
              td |-> [m \in {"audio", "video"} |-> NewTransportDescription]]
        ELSE ParseLine(parsed[k - 1], sdp.lines[k], sdp.crlf)
  IN  parsed[Len(sdp.lines)]

\* The transport infos are added after the loop; Nil where it returns -1
ParseAnswer(sdp) ==
  LET acc == ParsedLines(sdp)
  IN  IF sdp.lines = << >> \/ ~ acc.ok THEN Nil
      ELSE [NewSessionDescription("answer") EXCEPT
              !.contents = acc.contents, !.infos = <<acc.td["audio"], acc.td["video"]>>]
============================================================================
