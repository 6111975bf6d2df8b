------------------------------ MODULE Realtime ------------------------------
(***************************************************************************)
(* Realtime events: ConnectionManager and the socket endpoint              *)
(* (api/realtime.py, api/app.py) with the console's client                 *)
(* (ui/src/realtimeClient.js), which refetches its state from the API on   *)
(* RESYNC and on a gap.                                                    *)
(*                                                                         *)
(* The server is one event loop and gives up control only where it sends:  *)
(* its lock is never contended.  A broadcast may still be sending to other *)
(* consoles when a later one reaches this one.  Sockets that the client    *)
(* has dropped have no handlers and are left out.                          *)
(***************************************************************************)
EXTENDS Integers, Sequences, FiniteSets

CONSTANTS
  MaxAttempts,  \* MAX_RECONNECT_ATTEMPTS
  MaxEvents     \* bound: events broadcast in a behaviour

ASSUME RealtimeAssumption == MaxAttempts \in Nat \ {0} /\ MaxEvents \in Nat

VARIABLES
  sequence,   \* the server's _sequence
  casts,      \* events that a broadcast has still to send to this console
  link,       \* the client's socket, and whether the server has registered it
  channel,    \* what is on its way to the client
  console,    \* the client: state, reconnectAttempt, seq, its timers
  events,     \* number of events broadcast so far
  stale       \* those the console has neither received nor refetched

rtVars == <<sequence, casts, link, channel, console, events, stale>>

ClientStates == {"DISCONNECTED", "CONNECTING", "CONNECTED", "RECONNECTING", "FAILED"}
Links == {"none", "connecting", "refused", "accepted", "open", "broken"}
Messages == [type : {"OPEN", "RESYNC", "EVENT"}, seq : Nat, id : Nat, mine : BOOLEAN]

\* Every variable has its type.
RtTypeOK ==
  /\ sequence \in Nat /\ events \in Nat /\ stale \subseteq 1..events
  /\ casts \subseteq Messages
  /\ link \in Links
  /\ channel \in Seq(Messages)
  /\ console \in [state : ClientStates, attempt : 0..MaxAttempts, seq : Nat,
                  retry : BOOLEAN, settle : BOOLEAN, active : BOOLEAN]

RtInit ==
  /\ sequence = 0 /\ events = 0 /\ stale = {}
  /\ casts = {}
  /\ link = "none" /\ channel = << >>
  /\ console = [state |-> "DISCONNECTED", attempt |-> 0, seq |-> 0,
                retry |-> FALSE, settle |-> FALSE, active |-> FALSE]

-----------------------------------------------------------------------------
(* The server.                                                             *)

\* broadcast, to the snapshot of the connections; `mine` if its project is the
\* console's or none.  The change it tells of is committed already.
Broadcast(mine) ==
  LET e == [type |-> "EVENT", seq |-> sequence + 1, id |-> events + 1, mine |-> mine] IN
  /\ events < MaxEvents
  /\ sequence' = sequence + 1
  /\ events' = events + 1
  /\ casts' = IF link = "open" THEN casts \cup {e} ELSE casts
  /\ stale' = IF mine THEN stale \cup {e.id} ELSE stale
  /\ UNCHANGED <<link, channel, console>>

SendEvent(e) ==
  /\ casts' = casts \ {e}
  /\ channel' = Append(channel, e)
  /\ UNCHANGED <<sequence, link, console, events, stale>>

Control(type) == [type |-> type, seq |-> sequence, id |-> 0, mine |-> TRUE]

AcceptSocket ==
  /\ link = "connecting"
  /\ link' = "accepted"
  /\ channel' = Append(channel, Control("OPEN"))
  /\ UNCHANGED <<sequence, casts, console, events, stale>>

\* Mutant: no RESYNC after the socket is registered.
RegisterQuietly ==
  /\ link = "accepted"
  /\ link' = "open"
  /\ UNCHANGED <<sequence, casts, channel, console, events, stale>>

\* connect registers the socket and send_sync_message answers with RESYNC.
RegisterSocket ==
  /\ link = "accepted"
  /\ link' = "open"
  /\ channel' = Append(channel, Control("RESYNC"))
  /\ UNCHANGED <<sequence, casts, console, events, stale>>

CutLink(to) ==
  /\ link' = to
  /\ casts' = {} /\ channel' = << >>

\* A connection the console has not seen open is reported as failed; one that
\* breaks later may go unnoticed, as nobody waits for the heartbeat's answer.
Lost == IF console.state = "CONNECTED" THEN "broken" ELSE "refused"

\* The network or the server gives the connection up.
BreakLink ==
  /\ link \in {"connecting", "accepted", "open"}
  /\ CutLink(Lost)
  /\ UNCHANGED <<sequence, console, events, stale>>

\* The server starts again and numbers its events from 1.
RestartServer ==
  /\ sequence > 0
  /\ sequence' = 0
  /\ CutLink(IF link \in {"connecting", "accepted", "open"} THEN Lost ELSE link)
  /\ UNCHANGED <<console, events, stale>>

-----------------------------------------------------------------------------
(* The client.                                                             *)

Connecting(attempt) ==
  [console EXCEPT !.state = IF attempt > 0 THEN "RECONNECTING" ELSE "CONNECTING",
                  !.attempt = attempt, !.retry = FALSE, !.settle = FALSE, !.active = TRUE]

\* setProject with another project: disconnect if there was one, then connect.
SetProject ==
  /\ CutLink("connecting")
  /\ console' = Connecting(0)
  /\ UNCHANGED <<sequence, events, stale>>

ClearProject ==
  /\ console.active
  /\ CutLink("none")
  /\ console' = [console EXCEPT !.state = "DISCONNECTED", !.retry = FALSE,
                                !.settle = FALSE, !.active = FALSE]
  /\ UNCHANGED <<sequence, events, stale>>

\* Mutant: attempts without end.
ScheduleAlways ==
  [console EXCEPT !.state = "RECONNECTING", !.attempt = IF @ = MaxAttempts THEN @ ELSE @ + 1,
                  !.retry = TRUE, !.settle = FALSE]

\* socket.onclose: cleanupSocket, and scheduleReconnect unless the close was a
\* normal one.
ScheduleReconnect ==
  IF console.attempt >= MaxAttempts
  THEN [console EXCEPT !.state = "FAILED", !.settle = FALSE]
  ELSE [console EXCEPT !.state = "RECONNECTING", !.attempt = @ + 1,
                       !.retry = TRUE, !.settle = FALSE]
SocketClosed(normal) ==
  /\ link \in {"refused", "broken"}
  /\ link' = "none"
  /\ console' = IF normal THEN [console EXCEPT !.state = "DISCONNECTED", !.settle = FALSE]
                ELSE ScheduleReconnect
  /\ UNCHANGED <<sequence, casts, channel, events, stale>>

ReconnectTimer ==
  /\ console.retry
  /\ CutLink("connecting")
  /\ console' = Connecting(console.attempt)
  /\ UNCHANGED <<sequence, events, stale>>

StabilityTimer ==
  /\ console.settle
  /\ console' = [console EXCEPT !.settle = FALSE, !.attempt = 0]
  /\ UNCHANGED <<sequence, casts, link, channel, events, stale>>

\* socket.onopen, and socket.onmessage with its gap detection.
Gap(m) == console.seq > 0 /\ m.seq # console.seq + 1
Receive ==
  LET m == Head(channel) IN
  /\ channel # << >>
  /\ channel' = Tail(channel)
  /\ console' = CASE m.type = "OPEN" -> [console EXCEPT !.state = "CONNECTED", !.settle = TRUE]
                  [] m.type = "RESYNC" /\ m.seq = 0 -> console
                  [] OTHER -> [console EXCEPT !.seq = m.seq]
  /\ stale' = CASE m.type = "OPEN" -> stale
                [] m.type = "RESYNC" \/ Gap(m) -> {}
                [] OTHER -> stale \ {m.id}
  /\ UNCHANGED <<sequence, casts, link, events>>

RtNext ==
  \/ \E mine \in BOOLEAN : Broadcast(mine)
  \/ \E e \in casts : SendEvent(e)
  \/ AcceptSocket \/ RegisterSocket \/ BreakLink \/ RestartServer
  \/ SetProject \/ ClearProject \/ ReconnectTimer \/ StabilityTimer \/ Receive
  \/ \E normal \in BOOLEAN : SocketClosed(normal)

\* Timers fire and messages arrive, the server takes up a connection it has
\* been asked for or the browser reports that it could not be made.
RtFairness ==
  /\ WF_rtVars(ReconnectTimer)
  /\ WF_rtVars(Receive)
  /\ WF_rtVars(AcceptSocket)
  /\ WF_rtVars(link = "refused" /\ \E normal \in BOOLEAN : SocketClosed(normal))

RtSpec == RtInit /\ [][RtNext]_rtVars /\ RtFairness

-----------------------------------------------------------------------------
(* Properties.                                                             *)

\* A registered console with nothing on its way misses no event of its project:
\* what was broadcast before it connected, while its socket was being accepted,
\* during a break or before a restart of the server is refetched, and what is
\* broadcast later arrives, in whatever order (api/realtime.py).
NoSilentLoss ==
  link = "open" /\ channel = << >> /\ casts = {} => stale = {}

\* Reconnecting ends, with a connection or by giving up after the attempts
\* MAX_RECONNECT_ATTEMPTS allows (ui/src/realtimeClient.js).
ReconnectEnds == console.state = "RECONNECTING" ~> console.state # "RECONNECTING"
=============================================================================
