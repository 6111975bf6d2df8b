--------------------------- MODULE Console_proofs ---------------------------
(***************************************************************************)
(* What holds of the client of the socket and of the console for every     *)
(* number of events, attempts, projects and requests.                      *)
(***************************************************************************)
EXTENDS MCConsole, TLAPS

USE RealtimeAssumption

-----------------------------------------------------------------------------
(* The client of the socket.                                               *)

\* What the console will refetch, or receive, of the event i.
Refetched == \E k \in 1 .. Len(channel) : channel[k].type = "RESYNC"
OnItsWay(i) == \E k \in 1 .. Len(channel) : channel[k].type = "EVENT" /\ channel[k].id = i
ToBeSent(i) == \E e \in casts : e.id = i

\* Only events are broadcast, and a registered console will refetch or receive
\* every event it misses.
OnlyEvents == \A e \in casts : e.type = "EVENT"
Covered == link = "open" => \A i \in stale : Refetched \/ OnItsWay(i) \/ ToBeSent(i)

RtInv == RtTypeOK /\ OnlyEvents /\ Covered

LEMMA RtInitially == RtInit => RtInv
BY DEF RtInit, RtInv, RtTypeOK, Links, ClientStates, OnlyEvents, Covered

\* What is sent joins what is on its way.
LEMMA Sent ==
  ASSUME RtTypeOK, NEW m \in Messages, channel' = Append(channel, m)
  PROVE  /\ channel' \in Seq(Messages)
         /\ Refetched => Refetched'
         /\ m.type = "RESYNC" => Refetched'
         /\ \A i : OnItsWay(i) => OnItsWay(i)'
         /\ m.type = "EVENT" => OnItsWay(m.id)'
<1>1. /\ channel' \in Seq(Messages) /\ Len(channel') = Len(channel) + 1
      /\ \A k \in 1 .. Len(channel) : channel'[k] = channel[k]
      /\ channel'[Len(channel) + 1] = m
      /\ Len(channel) \in Nat
  BY DEF RtTypeOK
<1>2. Len(channel) + 1 \in 1 .. Len(channel') /\ 1 .. Len(channel) \subseteq 1 .. Len(channel')
  BY <1>1
<1> QED BY <1>1, <1>2 DEF Refetched, OnItsWay

LEMMA CutStep ==
  ASSUME RtInv, NEW to \in Links \ {"open"}, CutLink(to), sequence' \in Nat,
         UNCHANGED <<events, stale>>,
         console' \in [state : ClientStates, attempt : 0..MaxAttempts, seq : Nat,
                       retry : BOOLEAN, settle : BOOLEAN, active : BOOLEAN]
  PROVE  RtInv'
BY DEF RtInv, RtTypeOK, CutLink, Covered, OnlyEvents

LEMMA LostType == Lost \in Links \ {"open"}
BY DEF Lost, Links

LEMMA ServerStep ==
  ASSUME RtInv,
         \/ \E mine \in BOOLEAN : Broadcast(mine)
         \/ \E e \in casts : SendEvent(e)
         \/ AcceptSocket \/ RegisterSocket \/ BreakLink \/ RestartServer
  PROVE  RtInv'
<1>1. ASSUME NEW mine \in BOOLEAN, Broadcast(mine) PROVE RtInv'
  <2> DEFINE e == [type |-> "EVENT", seq |-> sequence + 1, id |-> events + 1, mine |-> mine]
  <2>1. e \in Messages /\ e.type = "EVENT" /\ e.id = events + 1
    BY DEF Messages, RtInv, RtTypeOK
  <2>2. /\ casts' = IF link = "open" THEN casts \cup {e} ELSE casts
        /\ stale' = IF mine THEN stale \cup {events + 1} ELSE stale
        /\ events' = events + 1 /\ sequence' = sequence + 1
        /\ UNCHANGED <<link, channel, console>>
    BY <1>1 DEF Broadcast
  <2> HIDE DEF e
  <2>3. RtTypeOK'
    BY <2>1, <2>2 DEF RtInv, RtTypeOK
  <2>4. OnlyEvents' /\ Covered'
    BY <2>1, <2>2 DEF RtInv, OnlyEvents, Covered, Refetched, OnItsWay, ToBeSent
  <2> QED BY <2>3, <2>4 DEF RtInv
<1>2. ASSUME NEW e \in casts, SendEvent(e) PROVE RtInv'
  <2>1. /\ e \in Messages /\ e.type = "EVENT" /\ casts' = casts \ {e}
        /\ channel' = Append(channel, e) /\ RtTypeOK
        /\ UNCHANGED <<sequence, link, console, events, stale>>
    BY <1>2 DEF SendEvent, RtInv, RtTypeOK, OnlyEvents
  <2>2. /\ channel' \in Seq(Messages) /\ (Refetched => Refetched')
        /\ \A i : OnItsWay(i) => OnItsWay(i)'
        /\ OnItsWay(e.id)'
    BY <2>1, Sent
  <2>3. RtTypeOK' /\ OnlyEvents'
    BY <2>1, <2>2 DEF RtInv, RtTypeOK, OnlyEvents
  <2>4. ASSUME NEW i, ToBeSent(i) PROVE OnItsWay(i)' \/ ToBeSent(i)'
    BY <2>1, <2>2, <2>4 DEF ToBeSent
  <2>5. Covered'
    BY <2>1, <2>2, <2>4 DEF RtInv, Covered
  <2> QED BY <2>3, <2>5 DEF RtInv
<1>3. ASSUME NEW type \in {"OPEN", "RESYNC"}, channel' = Append(channel, Control(type)),
             UNCHANGED <<sequence, casts, console, events, stale>>,
             \/ link' = "accepted"
             \/ link' = "open" /\ type = "RESYNC"
      PROVE  RtInv'
  <2>1. Control(type) \in Messages /\ Control(type).type = type
    BY DEF Control, Messages, RtInv, RtTypeOK
  <2>2. channel' \in Seq(Messages) /\ (type = "RESYNC" => Refetched')
    BY <1>3, <2>1, Sent DEF RtInv
  <2> QED BY <1>3, <2>2 DEF RtInv, RtTypeOK, Links, OnlyEvents, Covered
<1>4. CASE BreakLink
  BY <1>4, CutStep, LostType DEF BreakLink, RtInv, RtTypeOK
<1>5. CASE RestartServer
  <2> DEFINE to == IF link \in {"connecting", "accepted", "open"} THEN Lost ELSE link
  <2>1. to \in Links \ {"open"} /\ CutLink(to)
    BY <1>5, LostType DEF RestartServer, RtInv, RtTypeOK
  <2> QED BY <1>5, <2>1, CutStep DEF RestartServer, RtInv, RtTypeOK
<1> QED BY <1>1, <1>2, <1>3, <1>4, <1>5 DEF AcceptSocket, RegisterSocket

LEMMA ReceiveStep == ASSUME RtInv, Receive PROVE RtInv'
<1> DEFINE m == channel[1]
<1>1. /\ channel # << >> /\ channel' = Tail(channel) /\ channel \in Seq(Messages)
      /\ UNCHANGED <<sequence, casts, link, events>>
      /\ RtTypeOK
  BY DEF Receive, RtInv, RtTypeOK
<1>2. Head(channel) = m /\ m \in Messages
  BY <1>1
<1>3. /\ console' = CASE m.type = "OPEN" -> [console EXCEPT !.state = "CONNECTED", !.settle = TRUE]
                      [] m.type = "RESYNC" /\ m.seq = 0 -> console
                      [] OTHER -> [console EXCEPT !.seq = m.seq]
      /\ stale' = CASE m.type = "OPEN" -> stale
                    [] m.type = "RESYNC" \/ Gap(m) -> {}
                    [] OTHER -> stale \ {m.id}
  BY <1>2 DEF Receive
<1>4. /\ channel' \in Seq(Messages) /\ Len(channel) \in Nat \ {0} /\ Len(channel') = Len(channel) - 1
      /\ \A k \in 2 .. Len(channel) : channel'[k - 1] = channel[k]
  BY <1>1
<1> HIDE DEF m
<1>5. RtTypeOK'
  <2>1. console' \in [state : ClientStates, attempt : 0..MaxAttempts, seq : Nat,
                      retry : BOOLEAN, settle : BOOLEAN, active : BOOLEAN]
    BY <1>1, <1>2, <1>3 DEF RtTypeOK, Messages, ClientStates
  <2>2. stale' \subseteq stale
    BY <1>3
  <2> QED BY <1>1, <1>4, <2>1, <2>2 DEF RtTypeOK
<1>6. OnlyEvents'
  BY <1>1 DEF RtInv, OnlyEvents
<1>7. Covered'
  <2> SUFFICES ASSUME link = "open", NEW i \in stale'
               PROVE  (Refetched \/ OnItsWay(i) \/ ToBeSent(i))'
    BY <1>1 DEF Covered
  <2>1. m.type \in {"OPEN", "RESYNC", "EVENT"}
    BY <1>2 DEF Messages
  <2>2. i \in stale /\ m.type # "RESYNC" /\ ~(m.type = "EVENT" /\ m.id = i)
    BY <1>3, <2>1
  <2>3. Refetched \/ OnItsWay(i) \/ ToBeSent(i)
    BY <2>2 DEF RtInv, Covered
  <2>4. ASSUME NEW k \in 1 .. Len(channel), channel[k].type = "RESYNC" PROVE Refetched'
    <3>1. k # 1
      BY <2>2, <2>4 DEF m
    <3>2. k - 1 \in 1 .. Len(channel') /\ channel'[k - 1] = channel[k]
      BY <1>4, <3>1
    <3> QED BY <2>4, <3>2 DEF Refetched
  <2>5. ASSUME NEW k \in 1 .. Len(channel), channel[k].type = "EVENT", channel[k].id = i
        PROVE  OnItsWay(i)'
    <3>1. k # 1
      BY <2>2, <2>5 DEF m
    <3>2. k - 1 \in 1 .. Len(channel') /\ channel'[k - 1] = channel[k]
      BY <1>4, <3>1
    <3> QED BY <2>5, <3>2 DEF OnItsWay
  <2> QED BY <1>1, <2>3, <2>4, <2>5 DEF Refetched, OnItsWay, ToBeSent
<1> QED BY <1>5, <1>6, <1>7 DEF RtInv

LEMMA ClientStep ==
  ASSUME RtInv,
         \/ SetProject \/ ClearProject \/ ReconnectTimer \/ StabilityTimer
         \/ \E normal \in BOOLEAN : SocketClosed(normal)
  PROVE  RtInv'
<1> DEFINE Consoles == [state : ClientStates, attempt : 0..MaxAttempts, seq : Nat,
                        retry : BOOLEAN, settle : BOOLEAN, active : BOOLEAN]
<1>1. /\ console \in Consoles /\ sequence \in Nat
      /\ 0 \in 0..MaxAttempts
      /\ ~(console.attempt >= MaxAttempts) => console.attempt + 1 \in 0..MaxAttempts
  BY DEF RtInv, RtTypeOK
<1>2. CASE SetProject \/ ReconnectTimer
  <2>1. console' \in Consoles
    BY <1>1, <1>2, ZenonT(60) DEF SetProject, ReconnectTimer, Connecting, ClientStates
  <2> QED BY <1>1, <1>2, <2>1, CutStep DEF SetProject, ReconnectTimer, Links
<1>3. CASE ClearProject
  <2>1. console' \in Consoles
    BY <1>1, <1>3 DEF ClearProject, ClientStates
  <2> QED BY <1>1, <1>3, <2>1, CutStep DEF ClearProject, Links
<1>4. CASE StabilityTimer
  <2>1. console' \in Consoles
    BY <1>1, <1>4 DEF StabilityTimer
  <2> QED BY <1>4, <2>1 DEF StabilityTimer, RtInv, RtTypeOK, OnlyEvents, Covered, Refetched,
         OnItsWay, ToBeSent
<1>5. ASSUME NEW normal \in BOOLEAN, SocketClosed(normal) PROVE RtInv'
  <2>1. console' \in Consoles
    BY <1>1, <1>5 DEF SocketClosed, ScheduleReconnect, ClientStates
  <2> QED BY <1>5, <2>1 DEF SocketClosed, RtInv, RtTypeOK, Links, OnlyEvents, Covered
<1> QED BY <1>2, <1>3, <1>4, <1>5

LEMMA RtInvariance == RtInv /\ [RtNext]_rtVars => RtInv'
<1> SUFFICES ASSUME RtInv, [RtNext]_rtVars PROVE RtInv'
  OBVIOUS
<1>1. CASE UNCHANGED rtVars
  BY <1>1 DEF rtVars, RtInv, RtTypeOK, OnlyEvents, Covered, Refetched, OnItsWay, ToBeSent
<1> QED BY <1>1, ServerStep, ReceiveStep, ClientStep DEF RtNext

\* "No Silent Loss": whatever sockets break, servers start again and messages
\* come out of order, a registered console with nothing on its way has received
\* or refetched every event of its project, for any number of events and of
\* attempts to reconnect (broadcast and send_sync_message in api/realtime.py,
\* the gap detection of ui/src/realtimeClient.js).
THEOREM NothingIsLost == RtSpec => []NoSilentLoss
<1>1. RtInv => NoSilentLoss
  BY DEF RtInv, NoSilentLoss, Covered, Refetched, OnItsWay, ToBeSent
<1> QED BY <1>1, RtInitially, RtInvariance, PTL DEF RtSpec

HIDE RealtimeAssumption
USE ConsoleAssumption

-----------------------------------------------------------------------------
(* The console.                                                            *)

Fetching == [at : {"idle", "asked", "answered", "detail"},
             of : ShownProject \cup {Nothing}, found : ShownRun \cup {Nothing}]
Controlling == [op : {"none", "pause", "resume", "stop"}, run : ShownRun \cup {Nothing},
                page : ShownProject \cup {Nothing}, fetch : Fetch \cup {Nothing}]

\* A control that is on its way asks for something.
Asking == controlling.run # Nothing => controlling.op # "none"

ConInv == ConTypeOK /\ Asking

LEMMA ConInitially == ConInit => ConInv
<1> SUFFICES ASSUME ConInit PROVE ConInv
  OBVIOUS
<1> DEFINE fetch1 == CHOOSE s \in Fetch : TRUE
           load1 == CHOOSE l \in Load : TRUE
           shown1 == CHOOSE p \in ShownProject : TRUE
<1>1. shown1 \in ShownProject
  OBVIOUS
<1>2. /\ fetching = [[s \in Fetch |-> NotAsked] EXCEPT ![fetch1].at = "asked"]
      /\ loading = [[l \in Load |-> "idle"] EXCEPT ![load1] = "asked"]
      /\ activeId = shown1
  BY DEF ConInit
<1> HIDE DEF fetch1, load1, shown1
<1>3. fetching \in [Fetch -> Fetching]
  BY <1>2 DEF NotAsked, Fetching
<1>4. loading \in [Load -> {"idle", "asked"} \cup ShownProject]
  BY <1>2
<1> QED BY <1>1, <1>2, <1>3, <1>4 DEF ConInit, ConInv, ConTypeOK, Fetching, Uncontrolled, Asking

\* What the helpers of the console make of its state.
LEMMA Asks ==
  ASSUME ConTypeOK, NEW p \in ShownProject \cup {Nothing}, FetchCurrentRun(p)
  PROVE  fetching' \in [Fetch -> Fetching] /\ (CHOOSE s \in FreeFetch : TRUE) \in Fetch
BY DEF ConTypeOK, FetchCurrentRun, Asked, FreeFetch, Fetching

LEMMA Refreshes ==
  ASSUME ConTypeOK, Refreshed
  PROVE  loading' \in [Load -> {"idle", "asked"} \cup ShownProject]
BY DEF ConTypeOK, Refreshed

LEMMA EndsFetch ==
  ASSUME ConTypeOK, NEW s \in Fetch, EndFetch(s)
  PROVE  /\ fetching' \in [Fetch -> Fetching]
         /\ loading' \in [Load -> {"idle", "asked"} \cup ShownProject]
         /\ controlling' \in Controlling
<1>1. NotAsked \in Fetching /\ Uncontrolled \in Controlling
  BY DEF NotAsked, Uncontrolled, Fetching, Controlling
<1>2. fetching' \in [Fetch -> Fetching]
  BY <1>1 DEF EndFetch, ConTypeOK, Fetching
<1>3. CASE controlling.fetch = s
  BY <1>1, <1>2, <1>3, Refreshes DEF EndFetch
<1>4. CASE controlling.fetch # s
  BY <1>2, <1>4 DEF EndFetch, ConTypeOK, Controlling
<1> QED BY <1>3, <1>4

LEMMA Turns == ASSUME ConTypeOK, Turn PROVE turns' \in 0..MaxTurns
BY DEF ConTypeOK, Turn

LEMMA CurrentType ==
  ASSUME ConTypeOK, NEW p \in ShownProject \cup {Nothing}
  PROVE  CurrentOf(p) \in ShownRun \cup {Nothing}
BY DEF ConTypeOK, CurrentOf, ShownRun

LEMMA FetchStep ==
  ASSUME ConTypeOK, NEW s \in Fetch, AnswerFetch(s) \/ ShowRun(s) \/ ShowDetail(s) \/ FailFetch(s)
  PROVE  ConTypeOK'
<1>1. fetching[s] \in Fetching
  BY DEF ConTypeOK, Fetching
<1>2. CASE AnswerFetch(s)
  <2>1. CurrentOf(fetching[s].of) \in ShownRun \cup {Nothing}
    BY <1>1, CurrentType DEF Fetching
  <2> HIDE DEF CurrentOf
  <2>2. fetching' \in [Fetch -> Fetching]
    BY <1>2, <2>1, ZenonT(60) DEF AnswerFetch, ConTypeOK, Fetching
  <2> QED BY <1>2, <2>2 DEF AnswerFetch, ConTypeOK, server, Fetching
<1>3. CASE ShowRun(s)
  <2>1. currentRun' \in ShownRun \cup {Nothing}
    BY <1>1, <1>3 DEF ShowRun, Fetching
  <2>2. CASE EndFetch(s)
    BY <1>3, <2>1, <2>2, EndsFetch DEF ShowRun, ConTypeOK, server, Fetching, Controlling
  <2>3. CASE ~EndFetch(s)
    <3>1. [NotAsked EXCEPT !.at = "detail"] \in Fetching
      BY DEF NotAsked, Fetching
    <3>2. /\ fetching' \in [Fetch -> Fetching] /\ UNCHANGED <<controlling, loading>>
      BY <1>3, <2>3, <3>1 DEF ShowRun, ConTypeOK, Fetching
    <3> QED BY <1>3, <2>1, <3>2 DEF ShowRun, ConTypeOK, server, Fetching
  <2> QED BY <2>2, <2>3
<1>4. CASE ShowDetail(s)
  BY <1>4, EndsFetch DEF ShowDetail, ConTypeOK, server, Fetching, Controlling
<1>5. CASE FailFetch(s)
  BY <1>5, EndsFetch, Turns DEF FailFetch, ConTypeOK, server, Fetching, Controlling
<1> QED BY <1>2, <1>3, <1>4, <1>5

LEMMA ShowsAs ==
  ASSUME ConTypeOK, NEW p \in ShownProject, ShowAs(p)
  PROVE  project' \in ShownProject /\ fetching' \in [Fetch -> Fetching]
BY Asks DEF ShowAs, ConTypeOK, Fetching

LEMMA ProjectStep ==
  ASSUME ConTypeOK,
         \/ \E p \in ShownProject : StartRunOf(p) \/ EndRunOf(p) \/ SelectShown(p)
         \/ Poll \/ ActivateShown
         \/ \E s \in Load : AnswerLoad(s) \/ ShowProject(s) \/ FailLoad(s)
         \/ \E of \in ShownProject \cup {Nothing}, kind \in {"run", "page", "reconnect"} :
              HandleEvent(of, kind)
  PROVE  ConTypeOK'
<1>1. ASSUME NEW p \in ShownProject, StartRunOf(p) \/ EndRunOf(p) \/ SelectShown(p)
      PROVE  ConTypeOK'
  BY <1>1, Turns DEF StartRunOf, EndRunOf, SelectShown, ConTypeOK, ShownState, server
<1>2. CASE Poll
  <2>1. fetching' \in [Fetch -> Fetching]
    BY <1>2, Asks DEF Poll, ConTypeOK
  <2> QED BY <1>2, <2>1 DEF Poll, ConTypeOK, server, Fetching
<1>3. CASE ActivateShown
  <2>1. selecting \in ShownProject
    BY <1>3 DEF ActivateShown, ConTypeOK
  <2>2. project' \in ShownProject /\ fetching' \in [Fetch -> Fetching]
    BY <1>3, <2>1, ShowsAs DEF ActivateShown
  <2>3. /\ loading' \in [Load -> {"idle", "asked"} \cup ShownProject]
        /\ activeId' \in ShownProject /\ turns' \in 0..MaxTurns
    BY <1>3, <2>1, Refreshes, Turns DEF ActivateShown, ConTypeOK
  <2> QED BY <1>3, <2>2, <2>3 DEF ActivateShown, ConTypeOK, Fetching
<1>4. ASSUME NEW s \in Load, AnswerLoad(s) \/ ShowProject(s) \/ FailLoad(s) PROVE ConTypeOK'
  <2>1. loading' \in [Load -> {"idle", "asked"} \cup ShownProject]
    BY <1>4 DEF AnswerLoad, ShowProject, FailLoad, ConTypeOK
  <2>2. CASE AnswerLoad(s) \/ FailLoad(s)
    BY <2>1, <2>2, Turns DEF AnswerLoad, FailLoad, ConTypeOK, server
  <2>3. CASE ShowProject(s)
    BY <2>1, <2>3, ShowsAs DEF ShowProject, ConTypeOK, server, Fetching
  <2> QED BY <1>4, <2>2, <2>3
<1>5. ASSUME NEW of \in ShownProject \cup {Nothing}, NEW kind \in {"run", "page", "reconnect"},
             HandleEvent(of, kind)
      PROVE  ConTypeOK'
  <2>1. fetching' \in [Fetch -> Fetching]
    BY <1>5, Asks DEF HandleEvent, ConTypeOK, Fetching
  <2>2. loading' \in [Load -> {"idle", "asked"} \cup ShownProject]
    BY <1>5, Refreshes DEF HandleEvent, ConTypeOK
  <2> QED BY <1>5, <2>1, <2>2, Turns DEF HandleEvent, ConTypeOK, server, Fetching
<1> QED BY <1>1, <1>2, <1>3, <1>4, <1>5

LEMMA ControlStep ==
  ASSUME ConInv,
         \/ AnswerControl \/ FailControl
         \/ \E op \in DOMAIN AfterOp : ClickControl(op)
  PROVE  ConTypeOK'
<1>1. /\ controlling \in Controlling /\ runOf \in [ShownProject -> ShownState \cup {"none"}]
      /\ ConTypeOK /\ Asking
  BY DEF ConInv, ConTypeOK, Controlling
<1>2. Uncontrolled \in Controlling
  BY DEF Uncontrolled, Controlling
<1>3. ASSUME controlling.run # Nothing, Permitted, Controlled
      PROVE  runOf' \in [ShownProject -> ShownState \cup {"none"}]
  <2>1. controlling.run.of \in ShownProject /\ controlling.op \in {"none", "pause", "resume", "stop"}
    BY <1>1, <1>3 DEF Controlling, ShownRun
  <2>2. controlling.op \in {"pause", "resume", "stop"} =>
          AfterOp[controlling.op] \in ShownState
    BY DEF AfterOp, ShownState
  <2> QED BY <1>1, <1>3, <2>1, <2>2 DEF Controlled, Asking
<1>4. CASE AnswerControl
  <2>1. fetching' \in [Fetch -> Fetching] /\ (CHOOSE s \in FreeFetch : TRUE) \in Fetch
    BY <1>1, <1>4, Asks DEF AnswerControl, Controlling
  <2> DEFINE free == CHOOSE s \in FreeFetch : TRUE
  <2> HIDE DEF free
  <2>2. controlling' \in Controlling
    BY <1>1, <1>2, <1>4, <2>1 DEF AnswerControl, Controlling, free
  <2> QED BY <1>1, <1>3, <1>4, <2>1, <2>2 DEF AnswerControl, ConTypeOK, Fetching, Controlling
<1>5. CASE FailControl
  <2>1. /\ runOf' \in [ShownProject -> ShownState \cup {"none"}] /\ turns' \in 0..MaxTurns
        /\ controlling' \in Controlling
    BY <1>1, <1>2, <1>3, <1>5, Turns DEF FailControl, ConTypeOK
  <2> QED BY <1>1, <1>5, <2>1 DEF FailControl, ConTypeOK, Controlling
<1>6. ASSUME NEW op \in DOMAIN AfterOp, ClickControl(op) PROVE ConTypeOK'
  <2>1. op \in {"pause", "resume", "stop"}
    BY DEF AfterOp
  <2>2. controlling' \in Controlling
    BY <1>1, <1>6, <2>1 DEF ClickControl, ConTypeOK, Controlling
  <2> QED BY <1>1, <1>6, <2>2, Turns DEF ClickControl, ConTypeOK, server, Controlling
<1> QED BY <1>4, <1>5, <1>6

LEMMA ConInvariance == ConInv /\ [ConNext]_conVars => ConInv'
<1> SUFFICES ASSUME ConInv, [ConNext]_conVars PROVE ConInv'
  OBVIOUS
<1>1. CASE UNCHANGED conVars
  BY <1>1 DEF conVars, ConInv, ConTypeOK, Asking
<1>2. CASE ConNext
  <2>1. ConTypeOK'
    BY <1>2, FetchStep, ProjectStep, ControlStep DEF ConInv, ConNext
  <2>2. \/ controlling' = controlling \/ controlling'.run = Nothing
        \/ controlling'.op \in DOMAIN AfterOp
    <3>1. ASSUME NEW s \in Fetch, EndFetch(s)
          PROVE  controlling' = controlling \/ controlling'.run = Nothing
      BY <3>1 DEF EndFetch, Uncontrolled
    <3>2. CASE AnswerControl \/ FailControl
      <4>1. CASE AnswerControl
        <5> DEFINE free == CHOOSE s \in FreeFetch : TRUE
        <5>1. controlling' = [Uncontrolled EXCEPT !.op = controlling.op, !.fetch = free]
          BY <4>1 DEF AnswerControl
        <5> HIDE DEF free
        <5> QED BY <5>1 DEF Uncontrolled
      <4>2. CASE FailControl
        BY <4>2 DEF FailControl, Uncontrolled
      <4> QED BY <3>2, <4>1, <4>2
    <3>3. ASSUME NEW op \in DOMAIN AfterOp, ClickControl(op) PROVE controlling'.op = op
      BY <3>3 DEF ClickControl
    <3>4. ASSUME NEW s \in Fetch, AnswerFetch(s) \/ ShowRun(s) \/ ShowDetail(s) \/ FailFetch(s)
          PROVE  controlling' = controlling \/ controlling'.run = Nothing
      BY <3>1, <3>4 DEF AnswerFetch, ShowRun, ShowDetail, FailFetch
    <3>5. CASE \/ \E p \in ShownProject : StartRunOf(p) \/ EndRunOf(p) \/ SelectShown(p)
               \/ Poll \/ ActivateShown
               \/ \E s \in Load : AnswerLoad(s) \/ ShowProject(s) \/ FailLoad(s)
               \/ \E of \in ShownProject \cup {Nothing}, kind \in {"run", "page", "reconnect"} :
                    HandleEvent(of, kind)
      BY <3>5 DEF StartRunOf, EndRunOf, SelectShown, Poll, ActivateShown, AnswerLoad,
         ShowProject, FailLoad, HandleEvent
    <3> QED BY <1>2, <3>2, <3>3, <3>4, <3>5 DEF ConNext
  <2> QED BY <2>1, <2>2 DEF ConInv, Asking, AfterOp
<1> QED BY <1>1, <1>2

-----------------------------------------------------------------------------
\* Every variable of the socket's client and of the console has its type, for
\* any number of projects, requests, events and attempts.
THEOREM ConsoleIsTyped == Spec => []ConsoleTypeOK
<1> DEFINE Both == RtInv /\ ConInv
<1>1. Init => Both
  BY RtInitially, ConInitially DEF Init
<1>2. Both /\ [Next]_vars => Both'
  BY RtInvariance, ConInvariance DEF Next, vars
<1>3. Both => ConsoleTypeOK
  BY DEF ConsoleTypeOK, RtInv, ConInv
<1> QED BY <1>1, <1>2, <1>3, PTL DEF Spec
=============================================================================
