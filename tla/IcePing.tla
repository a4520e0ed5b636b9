------------------------------ MODULE IcePing ------------------------------
(***************************************************************************)
(* The clocks of an IceTransportChannel: when the timer fires, which       *)
(* interval a connection is pinged at, the round trips, and when           *)
(* unanswered pings cost a connection its state.  Every action is one of   *)
(* IceChannel whose choices the clocks make, so what IceChannel shows of   *)
(* every choice holds here.                                                *)
(*                                                                         *)
(* A time is kept as its age, the ticks since then, up to MaxAge; what     *)
(* never happened has the age MaxAge.  Responses come late, in any order   *)
(* or not at all, and at some point the peer may be gone.  An error        *)
(* response ends the process (IceChannel) and does not occur here.         *)
(***************************************************************************)
EXTENDS IceChannel

CONSTANTS           \* in ticks, but the counts MinPings, ConnectFails, RttRatio
  WeakInterval,     \* WEAK_PING_INTERVAL
  StrongInterval,   \* STRONG_PING_INTERVAL
  IntervalDiff,     \* PING_INTERVAL_DIFF
  StablingInterval, \* STABLING_CONNECTION_PING_INTERVAL
  StableInterval,   \* STABLE_CONNECTION_PING_INTERVAL
  MinPings,         \* MIN_PINGS_AT_WEAK_PING_INTERVAL
  ReceiveTimeout,   \* WEAK_CONNECTION_RECEIVE_TIMEOUT
  ConnectFails,     \* CONNECTION_WRITE_CONNECT_FAILS
  ConnectTimeout,   \* CONNECTION_WRITE_CONNECT_TIMEOUT
  WriteTimeout,     \* CONNECTION_WRITE_TIMEOUT
  MinRtt, MaxRtt,   \* MIN_RTT, MAX_RTT
  RttRatio,         \* RTT_RATIO
  MaxAge            \* bound on ages, above all the intervals

ASSUME ClockAssumption ==
  /\ MaxAge \in Nat
  /\ {WeakInterval, StrongInterval, IntervalDiff, StablingInterval, StableInterval,
      ReceiveTimeout, ConnectTimeout, WriteTimeout, MinRtt, MaxRtt} \subseteq 0..(MaxAge - 1)
  /\ {MinPings, ConnectFails, RttRatio} \subseteq Nat \ {0}
  /\ Rtt = 0..MaxAge

Age == 0..MaxAge

VARIABLES
  ping_age,         \* of _last_ping_sent
  response_age,     \* of _last_ping_response_received
  answered,         \* _last_ping_sent < _last_ping_response_received
  pings,            \* of the first ConnectFails _pings_since_last_response
  request_ages,     \* of the pending _requests
  num_pings_sent,   \* up to MinPings
  rtt_samples,      \* up to RttRatio + 2
  channel_age,      \* of the channel's _last_ping_sent_ms
  timer_age,        \* since the timer was started or fired
  cur_ping_interval,
  gone              \* the peer is gone

clocks == <<ping_age, response_age, answered, pings, request_ages, num_pings_sent, rtt_samples, channel_age>>
timevars == <<clocks, timer_age, cur_ping_interval, gone>>

TInit ==
  /\ Init
  /\ ping_age = [c \in Conn |-> MaxAge] /\ response_age = [c \in Conn |-> MaxAge]
  /\ answered = [c \in Conn |-> FALSE]
  /\ pings = [c \in Conn |-> << >>] /\ request_ages = [c \in Conn |-> {}]
  /\ num_pings_sent = [c \in Conn |-> 0] /\ rtt_samples = [c \in Conn |-> 0]
  /\ channel_age = MaxAge /\ timer_age = 0
  /\ cur_ping_interval = WeakInterval /\ gone = FALSE

UpTo(bound, n) == IF n < bound THEN n ELSE bound
Older(a) == UpTo(MaxAge, a + 1)

-----------------------------------------------------------------------------
(* Around the channel *)

\* Time passes between handlers.
Tick ==
  /\ pc = "idle"
  /\ ping_age' = [c \in Conn |-> Older(ping_age[c])]
  /\ response_age' = [c \in Conn |-> Older(response_age[c])]
  /\ pings' = [c \in Conn |-> [i \in DOMAIN pings[c] |-> Older(pings[c][i])]]
  /\ request_ages' = [c \in Conn |-> {Older(a) : a \in request_ages[c]}]
  /\ channel_age' = Older(channel_age) /\ timer_age' = Older(timer_age)
  /\ UNCHANGED <<vars, answered, num_pings_sent, rtt_samples, cur_ping_interval, gone>>

\* The peer answers no more.
PeerGone ==
  /\ ~ gone /\ gone' = TRUE
  /\ UNCHANGED <<vars, clocks, timer_age, cur_ping_interval>>

\* start_timer of _maybe_start_pinging
StartTimer ==
  /\ timer_age' = IF start_pinging' /\ ~ start_pinging THEN 0 ELSE timer_age
  /\ UNCHANGED <<cur_ping_interval, gone>>

-----------------------------------------------------------------------------
(* Connections *)

TUnknownAddress(c, name) ==
  UnknownAddress(c, name) /\ ~ gone /\ StartTimer /\ UNCHANGED clocks

TSetRemoteIceParams == SetRemoteIceParams /\ StartTimer /\ UNCHANGED clocks

\* received_ping_response: GetNextMovingAverage
NextRtt(c, elapsed) ==
  IF rtt_samples[c] = 0 THEN elapsed
  ELSE (RttRatio * conn[c].rtt + elapsed) \div (RttRatio + 1)

\* Mutant: _pings_since_last_response is not cleared.
TPingResponseKeepsPings(c, a) ==
  /\ ~ gone /\ a \in request_ages[c]
  /\ PingResponse(c, NextRtt(c, a))
  /\ request_ages' = [request_ages EXCEPT ![c] = @ \ {a}]
  /\ (c \in requests') = (request_ages'[c] # {})
  /\ response_age' = [response_age EXCEPT ![c] = 0]
  /\ answered' = [answered EXCEPT ![c] = ping_age[c] > 0]
  /\ rtt_samples' = [rtt_samples EXCEPT ![c] = UpTo(RttRatio + 2, @ + 1)]
  /\ StartTimer
  /\ UNCHANGED <<ping_age, num_pings_sent, channel_age, pings>>

\* The response to the request that was sent a ticks ago, which is removed;
\* of age MaxAge there may be more than one.
TPingResponse(c, a) ==
  /\ ~ gone /\ a \in request_ages[c]
  /\ PingResponse(c, NextRtt(c, a))
  /\ \E more \in BOOLEAN :
       request_ages' =
         [request_ages EXCEPT ![c] = IF more /\ a = MaxAge THEN @ ELSE @ \ {a}]
  /\ (c \in requests') = (request_ages'[c] # {})
  /\ response_age' = [response_age EXCEPT ![c] = 0]
  /\ answered' = [answered EXCEPT ![c] = ping_age[c] > 0]
  /\ pings' = [pings EXCEPT ![c] = << >>]
  /\ rtt_samples' = [rtt_samples EXCEPT ![c] = UpTo(RttRatio + 2, @ + 1)]
  /\ StartTimer
  /\ UNCHANGED <<ping_age, num_pings_sent, channel_age>>

TPingResponseWritable == PingResponseWritable /\ StartTimer /\ UNCHANGED clocks

-----------------------------------------------------------------------------
(* The timer *)

TCheckAndPing ==
  /\ timer_age >= cur_ping_interval
  /\ CheckAndPing
  /\ timer_age' = 0
  /\ UNCHANGED <<clocks, cur_ping_interval, gone>>

\* update_state: the round trip it allows for
AllowedRtt(c) == IF 2 * conn[c].rtt < MinRtt THEN MinRtt ELSE MaxRtt

TooManyPingFails(c) == Len(pings[c]) >= ConnectFails /\ pings[c][ConnectFails] > AllowedRtt(c)

TooLongWithoutResponse(c, time) == pings[c] # << >> /\ pings[c][1] > time

TUpdateUnreliable ==
  /\ todo # << >>
  /\ LET c == Head(todo) IN
     UpdateUnreliable(TooManyPingFails(c) /\ TooLongWithoutResponse(c, ConnectTimeout))
  /\ StartTimer /\ UNCHANGED clocks

TUpdateTimeout ==
  /\ todo # << >>
  /\ UpdateTimeout(TooLongWithoutResponse(Head(todo), WriteTimeout))
  /\ StartTimer /\ UNCHANGED clocks

\* update_receiving
TUpdateReceiving ==
  /\ todo # << >>
  /\ LET c == Head(todo) IN
     UpdateReceiving(~ (answered[c] \/ response_age[c] < ReceiveTimeout))
  /\ StartTimer /\ UNCHANGED clocks

Stable(c) ==
  /\ rtt_samples[c] > RttRatio + 1
  /\ ~ (pings[c] # << >> /\ pings[c][1] > 2 * conn[c].rtt)

\* _get_connection_ping_interval
PingInterval(c) ==
  IF num_pings_sent[c] < MinPings THEN WeakInterval
  ELSE IF Weak(conn, ctl_selected) \/ ~ Stable(c) THEN StablingInterval
  ELSE StableInterval

\* _is_connection_past_ping_interval
Due == {c \in LiveConn : ping_age[c] >= PingInterval(c)}

\* selected_connection_to_ping
ChannelInterval ==
  IF Weak(conn, ctl_selected) \/ \E c \in LiveConn : num_pings_sent[c] < MinPings
  THEN WeakInterval ELSE StrongInterval

ChannelDue == channel_age + IntervalDiff >= ChannelInterval

\* a changed interval starts the timer again
RestartTimer ==
  /\ cur_ping_interval' = ChannelInterval
  /\ timer_age' = IF cur_ping_interval' # cur_ping_interval THEN 0 ELSE timer_age
  /\ UNCHANGED gone

\* the clocks of ping and _ping_connection
PingClocks(c) ==
  /\ ping_age' = [ping_age EXCEPT ![c] = 0]
  /\ answered' = [answered EXCEPT ![c] = FALSE]
  /\ pings' = [pings EXCEPT ![c] = IF Len(@) < ConnectFails THEN Append(@, 0) ELSE @]
  /\ request_ages' = [request_ages EXCEPT ![c] = @ \cup {0}]
  /\ num_pings_sent' = [num_pings_sent EXCEPT ![c] = UpTo(MinPings, @ + 1)]
  /\ channel_age' = 0
  /\ UNCHANGED <<response_age, rtt_samples>>

TPingSelected ==
  ChannelDue /\ PingSelected(Due) /\ PingClocks(ctl_selected) /\ RestartTimer

TPingNext(c) == ChannelDue /\ PingNext(c, Due) /\ PingClocks(c) /\ RestartTimer

TPingNone == ChannelDue /\ PingNone(Due) /\ RestartTimer /\ UNCHANGED clocks

TPingLater == ~ ChannelDue /\ PingLater /\ RestartTimer /\ UNCHANGED clocks

Handler ==
  \/ TPingResponseWritable
  \/ TUpdateUnreliable \/ TUpdateTimeout \/ TUpdateReceiving
  \/ TPingSelected \/ (\E c \in Conn : TPingNext(c)) \/ TPingNone \/ TPingLater

Response == \E c \in Conn, a \in Age : TPingResponse(c, a)

TNext ==
  \/ Tick \/ PeerGone
  \/ \E c \in Conn, name \in Username : TUnknownAddress(c, name)
  \/ TSetRemoteIceParams
  \/ Response
  \/ TCheckAndPing
  \/ Handler

TSpec == TInit /\ [][TNext]_<<vars, timevars>>

\* Time goes on, a handler runs to its end, and the loop runs the timer.  The
\* last conjunct: a peer that is not gone answers, however often packets of
\* it are lost.
FairTSpec ==
  /\ TSpec
  /\ WF_<<vars, timevars>>(Tick)
  /\ WF_<<vars, timevars>>(Handler)
  /\ SF_<<vars, timevars>>(TCheckAndPing)
  /\ \A c \in Conn : SF_<<vars, timevars>>(\E a \in Age : TPingResponse(c, a))

-----------------------------------------------------------------------------
(* Properties *)

\* Every clock has its type.
TTypeOK ==
  /\ TypeOK
  /\ ping_age \in [Conn -> Age] /\ response_age \in [Conn -> Age]
  /\ answered \in [Conn -> BOOLEAN]
  /\ pings \in [Conn -> Seq(Age)] /\ \A c \in Conn : Len(pings[c]) <= ConnectFails
  /\ request_ages \in [Conn -> SUBSET Age]
  /\ num_pings_sent \in [Conn -> 0..MinPings]
  /\ rtt_samples \in [Conn -> 0..(RttRatio + 2)]
  /\ channel_age \in Age /\ timer_age \in Age
  /\ cur_ping_interval \in {WeakInterval, StrongInterval} /\ gone \in BOOLEAN

\* A connection that lost its state was silent for the whole time the code
\* allows, not only since some ping (update_state).
GivenUpWasSilent ==
  pc # "response" =>
    \A c \in LiveConn :
      /\ conn[c].write_state = STATE_WRITE_UNRELIABLE => response_age[c] > ConnectTimeout
      /\ conn[c].write_state = STATE_WRITE_TIMEOUT => response_age[c] > WriteTimeout

\* When the peer is gone, a connection that can be pinged times out and the
\* channel does not stay writable: pings go on in every state, and the counts
\* and times of update_state are reached.
GoneTimesOut ==
  \A c \in Conn :
    (gone /\ Live(c) /\ CanSign(conn[c])) ~>
      (~ writable /\ Live(c) /\ conn[c].write_state = STATE_WRITE_TIMEOUT)

\* A channel with a connection it can ping becomes writable, if the peer
\* stays: also after it lost the state, and whatever came first, the peer's
\* ping or the answer.
BecomesWritable ==
  (\E c \in LiveConn : CanSign(conn[c])) ~> (writable \/ gone)
============================================================================
