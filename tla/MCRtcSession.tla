---------------------------- MODULE MCRtcSession ----------------------------
(* Two pushes of one or two users, each answered or not, or one answered     *)
(* twice, on an interface behind an address translation.                     *)
EXTENDS RtcSession, TLC

MCSymmetry == Permutations(Uid)

MCMedia == {{}, {"audio", "video"}}
MCNetwork == {[ip |-> "ip1", private |-> TRUE]}
MCRanges == {<<1, 2>>, <<2, 2>>}

\* A right request, and requests with something wrong
MCCheck ==
  LET good == [user |-> "offered", key |-> "offered", role |-> "ICE_CONTROLLED",
              priority |-> TRUE, damaged |-> FALSE]
  IN  {good, [good EXCEPT !.user = "other"], [good EXCEPT !.user = "restart", !.priority = FALSE],
       [good EXCEPT !.user = "single"], [good EXCEPT !.user = "none"],
       [good EXCEPT !.key = "wrong"], [good EXCEPT !.key = "none"],
       [good EXCEPT !.priority = FALSE], [good EXCEPT !.role = "ICE_CONTROLLING"],
       [good EXCEPT !.damaged = TRUE]}

\* Text that ends its lines as RFC 4566 says, text without '\r', credentials
\* above the m-lines, a bad fingerprint
MCLayout ==
  LET good == [crlf |-> TRUE, cr |-> TRUE, level |-> "media", bad |-> FALSE]
  IN  {good, [good EXCEPT !.crlf = FALSE, !.cr = FALSE],
       [good EXCEPT !.level = "session"], [good EXCEPT !.bad = TRUE]}
=============================================================================
