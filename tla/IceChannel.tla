---------------------------- MODULE IceChannel ----------------------------
(***************************************************************************)
(* One IceTransportChannel with its IceController and its IceConnections:  *)
(* connections that come from the pings of unknown addresses, the answer   *)
(* that brings the peer's password, pings, responses, the states that time *)
(* out, the sorting and the choice of the connection packets are sent on,  *)
(* and the error response that destroys a connection.                      *)
(*                                                                         *)
(* A worker's thread runs each handler to its end.  A handler that signals *)
(* a state change between two of its own changes is split there, by pc.    *)
(* No clock: whether an interval has passed is a choice here, and follows  *)
(* from the times of the pings in IcePing.                                 *)
(***************************************************************************)
EXTENDS Integers, Sequences, FiniteSets, SequencesExt

CONSTANTS
  Conn,             \* remote addresses; a port makes one connection of each
  Priority,         \* the priority of a connection (candidate pair)
  Rtt,              \* values the average of round trips takes
  InitRtt,          \* its value before any response
  MinImprovement,   \* k_min_improvement
  Null

ASSUME ValueAssumption ==
  /\ Priority \in [Conn -> Nat] /\ Rtt \subseteq Nat
  /\ InitRtt \in Nat /\ MinImprovement \in Nat \ {0}

\* WriteState, in the order the comparison uses.
STATE_WRITABLE == 0
STATE_WRITE_UNRELIABLE == 1
STATE_WRITE_INIT == 2
STATE_WRITE_TIMEOUT == 3

\* The user name the peer's first ping gives: empty, the one of the answer,
\* which is taken as not empty, or some other.
Username == {"", "answer", "other"}

\* username: that of _remote_candidate; password: whether its password is set.
IceConnection ==
  [username : Username, password : BOOLEAN, write_state : 0..3,
   receiving : BOOLEAN, rtt : Rtt \cup {InitRtt}]

ASSUME ConnAssumption == Null \notin Conn /\ Null \notin IceConnection

VARIABLES
  conn,             \* the connection objects, Null where there is none
  remote_params,    \* _remote_ice_params is set
  connections,      \* the controller's _connections, best first once sorted
  unpinged,         \* _unpinged_connections
  pinged,           \* _pinged_connections
  recent,           \* connections by _last_ping_sent, the oldest first
  requests,         \* connections whose _requests holds a request
  since,            \* connections with _pings_since_last_response
  ctl_selected,     \* the controller's _selected_connection
  selected,         \* the channel's _selected_connection
  writable, receiving,      \* the channel's _writable and _receiving
  start_pinging,    \* _start_pinging: the timer runs
  pc,               \* where the handler is
  todo              \* connections the handler has yet to look at

netvars == <<recent, requests, since>>
setvars == <<unpinged, pinged>>
chvars == <<ctl_selected, selected, writable, receiving, start_pinging>>
vars == <<conn, remote_params, connections, setvars, netvars, chvars, pc, todo>>

Init ==
  /\ conn = [c \in Conn |-> Null] /\ remote_params = FALSE
  /\ connections = << >> /\ unpinged = {} /\ pinged = {}
  /\ recent = << >> /\ requests = {} /\ since = {}
  /\ ctl_selected = Null /\ selected = Null
  /\ writable = FALSE /\ receiving = FALSE /\ start_pinging = FALSE
  /\ pc = "idle" /\ todo = << >>

Live(c) == conn[c] # Null

-----------------------------------------------------------------------------
(* Sorting and switching.  cs: the connections as the handler left them.   *)

\* Mutant: receiving is not compared.
BetterNoReceiving(cs, a, b) ==
  LET A == cs[a] B == cs[b] IN
  \/ A.write_state < B.write_state
  \/ A.write_state = B.write_state /\ Priority[a] > Priority[b]

\* _compare_connections, and rtt() where it finds no difference
Better(cs, a, b) ==
  LET A == cs[a] B == cs[b] IN
  \/ A.write_state < B.write_state
  \/ /\ A.write_state = B.write_state
     /\ \/ A.receiving /\ ~ B.receiving
        \/ /\ A.receiving = B.receiving
           /\ \/ Priority[a] > Priority[b]
              \/ Priority[a] = Priority[b] /\ A.rtt < B.rtt

\* absl::c_stable_sort puts the i-th element before the j-th, ...
Before(cs, s, i, j) ==
  \/ Better(cs, s[i], s[j])
  \/ ~ Better(cs, s[j], s[i]) /\ i < j

\* ... and so the i-th at this place.
Place(cs, s, i) == Cardinality({j \in DOMAIN s : Before(cs, s, j, i)}) + 1

StableSort(cs, s) == [n \in DOMAIN s |-> s[CHOOSE i \in DOMAIN s : Place(cs, s, i) = n]]

\* Mutant: active() instead, a connection that never answered included.
ReadyToSendActive(cn) == cn.write_state # STATE_WRITE_TIMEOUT

ReadyToSend(cn) == cn.write_state \in {STATE_WRITABLE, STATE_WRITE_UNRELIABLE}

\* _weak()
Weak(cs, sel) ==
  sel # Null => ~ (cs[sel].write_state = STATE_WRITABLE /\ cs[sel].receiving)

\* sort_and_switch_connection: the connection to switch to, or Null
SwitchTo(cs, s) ==
  IF /\ s # << >> /\ ReadyToSend(cs[s[1]]) /\ ctl_selected # s[1]
     /\ \/ ctl_selected = Null
        \/ cs[s[1]].rtt <= cs[ctl_selected].rtt - MinImprovement
  THEN s[1] ELSE Null

\* has_pingable_connection.  Before pinging starts nothing is selected, so
\* the channel is weak and no interval is asked for.
HasPingable(cs, s, sel) == Weak(cs, sel) /\ \E c \in Range(s) : cs[c].password

\* _update_state
UpdateState(cs, s, sel) ==
  /\ writable' = (sel # Null /\ cs[sel].write_state = STATE_WRITABLE)
  /\ receiving' = \E c \in Range(s) : cs[c].receiving

\* _sort_connections_and_update_state: _maybe_switch_selected_connection,
\* _update_state, _maybe_start_pinging
SortAndUpdate(cs, old) ==
  LET s   == StableSort(cs, old)
      new == SwitchTo(cs, s)
      sel == IF new = Null THEN selected ELSE new
      ctl == IF new = Null THEN ctl_selected ELSE new
  IN  /\ conn' = cs
      /\ connections' = s
      /\ selected' = sel
      /\ ctl_selected' = ctl
      /\ UpdateState(cs, s, sel)
      /\ start_pinging' = (start_pinging \/ HasPingable(cs, s, ctl))

\* Mutant: only the write state is signalled.
SignalStateChangeWriteOnly(c, cn) ==
  IF cn.write_state # conn[c].write_state
  THEN SortAndUpdate([conn EXCEPT ![c] = cn], connections)
  ELSE conn' = [conn EXCEPT ![c] = cn] /\ UNCHANGED <<connections, chvars>>

\* singal_state_change, which only a change of the state sends
SignalStateChange(c, cn) ==
  IF <<cn.write_state, cn.receiving>> # <<conn[c].write_state, conn[c].receiving>>
  THEN SortAndUpdate([conn EXCEPT ![c] = cn], connections)
  ELSE conn' = [conn EXCEPT ![c] = cn] /\ UNCHANGED <<connections, chvars>>

-----------------------------------------------------------------------------
(* Connections *)

NewIceConnection(name) ==
  [username |-> name, password |-> remote_params,
   write_state |-> STATE_WRITE_INIT, receiving |-> FALSE, rtt |-> InitRtt]

\* UDPPort::_on_read_packet, get_connection: whom a datagram from c goes to.
\* The map keeps its entry when the connection is destroyed, but that is the
\* end of the process.
KnownAddress(c) == Live(c)

\* A binding request, which get_stun_message found valid, from an address the
\* port has no connection for: _on_unknown_address, _add_connection
UnknownAddress(c, name) ==
  /\ pc = "idle" /\ ~ KnownAddress(c)
  /\ SortAndUpdate([conn EXCEPT ![c] = NewIceConnection(name)], Append(connections, c))
  /\ unpinged' = unpinged \cup {c}
  /\ UNCHANGED <<remote_params, pinged, netvars, pc, todo>>

\* Mutant: the trailing _sort_connections_and_update_state is missing.
SetRemoteIceParamsNoSort ==
  /\ pc = "idle"
  /\ remote_params' = TRUE
  /\ conn' = [c \in Conn |-> IF Live(c) /\ conn[c].username = "answer"
                              THEN [conn[c] EXCEPT !.password = TRUE] ELSE conn[c]]
  /\ UNCHANGED <<connections, chvars, setvars, netvars, pc, todo>>

\* set_remote_ice_params, with maybe_set_remote_ice_params of each connection
SetRemoteIceParams ==
  /\ pc = "idle"
  /\ remote_params' = TRUE
  /\ LET cs == [c \in Conn |-> IF Live(c) /\ conn[c].username = "answer"
                               THEN [conn[c] EXCEPT !.password = TRUE] ELSE conn[c]]
     IN  SortAndUpdate(cs, connections)
  /\ UNCHANGED <<setvars, netvars, pc, todo>>

\* check_response: a response to no pending request is dropped.
Pending(c) == c \in requests

\* A success response to a pending request: received_ping_response up to
\* update_receiving.  Other requests may still be pending.
PingResponse(c, rtt) ==
  /\ pc = "idle" /\ KnownAddress(c) /\ Pending(c)
  /\ requests' \in {requests, requests \ {c}}
  /\ since' = since \ {c}
  /\ SignalStateChange(c, [conn[c] EXCEPT !.rtt = rtt, !.receiving = TRUE])
  /\ pc' = "response" /\ todo' = <<c>>
  /\ UNCHANGED <<remote_params, setvars, recent>>

\* the rest of it: set_write_state(STATE_WRITABLE)
PingResponseWritable ==
  /\ pc = "response"
  /\ LET c == Head(todo) IN
     SignalStateChange(c, [conn[c] EXCEPT !.write_state = STATE_WRITABLE])
  /\ pc' = "idle" /\ todo' = << >>
  /\ UNCHANGED <<remote_params, setvars, netvars>>

\* on_connection_destroyed of the controller
Forget(c) ==
  /\ connections' = RemoveFirst(connections, c)
  /\ unpinged' = unpinged \ {c} /\ pinged' = pinged \ {c}

\* An error response to a pending request destroys the connection: the parser
\* knows no ERROR-CODE attribute, so that every code reads as 600.  destroy()
\* signals, the channel forgets the connection, and if it was the selected
\* one logs through the null pointer before it sorts (the default log level
\* is info); otherwise check_response deletes the request, which went with
\* the connection, once more.  The process ends either way.
ErrorResponse(c) ==
  /\ pc = "idle" /\ KnownAddress(c) /\ Pending(c)
  /\ conn' = [conn EXCEPT ![c] = Null]
  /\ Forget(c)
  /\ requests' = requests \ {c} /\ since' = since \ {c}
  /\ selected' = IF selected = c THEN Null ELSE selected
  /\ pc' = "crashed"
  /\ UNCHANGED <<remote_params, recent, ctl_selected, writable, receiving, start_pinging, todo>>

-----------------------------------------------------------------------------
(* The timer: _on_check_and_ping *)

\* _update_connection_state copies the connections
CheckAndPing ==
  /\ pc = "idle" /\ start_pinging
  /\ todo' = connections /\ pc' = "unreliable"
  /\ UNCHANGED <<conn, remote_params, connections, setvars, netvars, chvars>>

\* update_state: a writable connection with too many unanswered pings
UpdateUnreliable(late) ==
  /\ pc = "unreliable" /\ todo # << >>
  /\ LET c == Head(todo) IN
     SignalStateChange(c,
       IF late /\ c \in since /\ conn[c].write_state = STATE_WRITABLE
       THEN [conn[c] EXCEPT !.write_state = STATE_WRITE_UNRELIABLE] ELSE conn[c])
  /\ pc' = "timeout"
  /\ UNCHANGED <<remote_params, setvars, netvars, todo>>

\* Mutant: a connection that never was writable does not time out.
UpdateTimeoutNotInit(late) ==
  /\ pc = "timeout"
  /\ LET c == Head(todo) IN
     SignalStateChange(c,
       IF late /\ c \in since /\ conn[c].write_state = STATE_WRITE_UNRELIABLE
       THEN [conn[c] EXCEPT !.write_state = STATE_WRITE_TIMEOUT] ELSE conn[c])
  /\ pc' = "receiving"
  /\ UNCHANGED <<remote_params, setvars, netvars, todo>>

\* update_state: no response for too long
UpdateTimeout(late) ==
  /\ pc = "timeout"
  /\ LET c == Head(todo) IN
     SignalStateChange(c,
       IF /\ late /\ c \in since
          /\ conn[c].write_state \in {STATE_WRITE_UNRELIABLE, STATE_WRITE_INIT}
       THEN [conn[c] EXCEPT !.write_state = STATE_WRITE_TIMEOUT] ELSE conn[c])
  /\ pc' = "receiving"
  /\ UNCHANGED <<remote_params, setvars, netvars, todo>>

\* update_state: update_receiving.  Only a response makes it TRUE again.
UpdateReceiving(late) ==
  /\ pc = "receiving"
  /\ LET c == Head(todo) IN
     SignalStateChange(c, [conn[c] EXCEPT !.receiving = @ /\ ~ late])
  /\ todo' = Tail(todo) /\ pc' = "unreliable"
  /\ UNCHANGED <<remote_params, setvars, netvars>>

\* Mutant: the password is not asked for.
IsPingableUnsigned(c, due) ==
  conn[c].username # "" /\ (~ Weak(conn, ctl_selected) => c \in due)

\* What a ping of the connection needs: the peer's user name and password.
CanSign(cn) == cn.username # "" /\ cn.password

\* _is_pingable; due: the connections whose ping interval has passed
IsPingable(c, due) == CanSign(conn[c]) /\ (~ Weak(conn, ctl_selected) => c \in due)

\* _more_pingable: pinged longer ago, or never
LessRecent(a, b) ==
  /\ b \in Range(recent)
  /\ \/ a \notin Range(recent)
     \/ \E i, j \in DOMAIN recent : i < j /\ recent[i] = a /\ recent[j] = b

\* _find_next_pingable_connection, its first rule
SelectedFirst(due) ==
  /\ ctl_selected # Null /\ conn[ctl_selected].write_state = STATE_WRITABLE
  /\ ctl_selected \in due

\* ping, mark_connection_pinged.  un, pi: the two sets as the search left them.
PingConnection(c, un, pi) ==
  /\ recent' = Append(RemoveFirst(recent, c), c)
  /\ requests' = requests \cup {c} /\ since' = since \cup {c}
  /\ unpinged' = IF c \in pi THEN un ELSE un \ {c}
  /\ pinged' = pi \cup {c}

\* The interval of the channel has passed and the selected connection is due.
PingSelected(due) ==
  /\ pc = "unreliable" /\ todo = << >>
  /\ SelectedFirst(due)
  /\ PingConnection(ctl_selected, unpinged, pinged)
  /\ pc' = "idle"
  /\ UNCHANGED <<conn, remote_params, connections, chvars, todo>>

\* Otherwise both sets become one, as has_pingable is never set, and the
\* connection pinged longest ago is next.
PingNext(c, due) ==
  /\ pc = "unreliable" /\ todo = << >>
  /\ ~ SelectedFirst(due)
  /\ c \in unpinged \cup pinged /\ IsPingable(c, due)
  /\ \A d \in unpinged \cup pinged : IsPingable(d, due) => ~ LessRecent(d, c)
  /\ PingConnection(c, unpinged \cup pinged, {})
  /\ pc' = "idle"
  /\ UNCHANGED <<conn, remote_params, connections, chvars, todo>>

\* No connection can be pinged.
PingNone(due) ==
  /\ pc = "unreliable" /\ todo = << >>
  /\ ~ SelectedFirst(due)
  /\ \A d \in unpinged \cup pinged : ~ IsPingable(d, due)
  /\ unpinged' = unpinged \cup pinged /\ pinged' = {}
  /\ pc' = "idle"
  /\ UNCHANGED <<conn, remote_params, connections, netvars, chvars, todo>>

\* The interval of the channel has not passed.
PingLater ==
  /\ pc = "unreliable" /\ todo = << >>
  /\ pc' = "idle"
  /\ UNCHANGED <<conn, remote_params, connections, setvars, netvars, chvars, todo>>

Next ==
  \/ \E c \in Conn, name \in Username : UnknownAddress(c, name)
  \/ SetRemoteIceParams
  \/ \E c \in Conn, rtt \in Rtt : PingResponse(c, rtt)
  \/ PingResponseWritable
  \/ \E c \in Conn : ErrorResponse(c)
  \/ CheckAndPing
  \/ \E late \in BOOLEAN : \/ UpdateUnreliable(late)
                           \/ UpdateTimeout(late)
                           \/ UpdateReceiving(late)
  \/ \E due \in SUBSET Conn : \/ PingSelected(due)
                              \/ \E c \in Conn : PingNext(c, due)
                              \/ PingNone(due)
  \/ PingLater

Spec == Init /\ [][Next]_vars

-----------------------------------------------------------------------------
(* Properties *)

Crashed == pc = "crashed"
LiveConn == {c \in Conn : Live(c)}

\* Every variable has its type.
TypeOK ==
  /\ conn \in [Conn -> IceConnection \cup {Null}]
  /\ remote_params \in BOOLEAN
  /\ connections \in Seq(Conn) /\ recent \in Seq(Conn) /\ todo \in Seq(Conn)
  /\ unpinged \subseteq Conn /\ pinged \subseteq Conn
  /\ requests \subseteq Conn /\ since \subseteq Conn
  /\ selected \in Conn \cup {Null} /\ ctl_selected \in Conn \cup {Null}
  /\ writable \in BOOLEAN /\ receiving \in BOOLEAN /\ start_pinging \in BOOLEAN
  /\ pc \in {"idle", "response", "unreliable", "timeout", "receiving", "crashed"}

\* Until a connection is destroyed, the channel and the controller hold the
\* same selected connection, it exists, and it has answered a ping
\* (_switch_selected_connection).
SelectedAgree ==
  ~ Crashed => /\ selected = ctl_selected
               /\ selected # Null =>
                    Live(selected) /\ conn[selected].write_state # STATE_WRITE_INIT

\* _writable and _receiving of the channel are never behind the states of the
\* connections: every change reaches _update_state.
ChannelStateCurrent ==
  ~ Crashed =>
    /\ writable = (selected # Null /\ conn[selected].write_state = STATE_WRITABLE)
    /\ receiving = \E c \in LiveConn : conn[c].receiving

\* No connection is in a better state than the first of the vector: every
\* change that the comparison looks at, but the round trip, sorts again.
FirstIsBest ==
  \A i \in DOMAIN connections :
    LET F == conn[connections[1]] C == conn[connections[i]] IN
    /\ F.write_state <= C.write_state
    /\ F.write_state = C.write_state =>
         /\ C.receiving => F.receiving
         /\ C.receiving = F.receiving => Priority[connections[1]] >= Priority[connections[i]]

\* No ping goes out without the peer's user name and password, though the
\* selected connection is pinged without asking for them.
PingsAreSigned == \A c \in LiveConn : c \in requests \cup Range(recent) => CanSign(conn[c])

============================================================================
