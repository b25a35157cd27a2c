------------------------------- MODULE Clients -------------------------------
(***************************************************************************)
(* The page of a broadcaster (public/js/broadcast.js) and the page of a     *)
(* listener (public/js/listen.js) around one room of the streaming hub      *)
(* (server/streaming.js): how each connects, loses its connection and       *)
(* connects again, what of the broadcast reaches the listener, and what     *)
(* both pages show.                                                         *)
(*                                                                         *)
(* The two ends of a socket learn of its end at different times.  A message *)
(* is handled in the step that sends it: the frames of a socket stay in     *)
(* order, and those under way when it breaks are not modelled.  The room is *)
(* kept as far as the pages can tell; module Streaming has it in full.      *)
(*                                                                         *)
(* A chunk is the "head" of a recorder's stream, without which a decoder    *)
(* can do nothing, or one of the "mid" chunks that follow it.               *)
(***************************************************************************)
EXTENDS Integers, FiniteSets

CONSTANTS
  BSocks,       \* sockets of the broadcaster's page, used again once free
  LSocks,       \* sockets of the listener's page
  MaxReconnect, \* attempts after which the listener gives up
  MaxTimers,    \* bound on the reconnect timers of a page
  MaxAsks,      \* bound on the requests for the microphone that await an answer
  None

ASSUME ClientsAssumption ==
  /\ BSocks \cap LSocks = {} /\ IsFiniteSet(LSocks)
  /\ {MaxReconnect, MaxTimers, MaxAsks} \subseteq Nat
  /\ None \notin BSocks \cup LSocks \cup {"head", "mid"}

Socks == BSocks \cup LSocks

VARIABLES
  sock,       \* socket -> "free", "connecting", "open", "closing" (by its page),
              \* "dropped" (by the server) or "half-open" (the page has left it)
  code,       \* socket -> close code its page will see, "plain", "full" or "many"
  \* the broadcaster's page
  active,     \* a room is selected
  ws,         \* its current socket, or None
  timers,     \* page -> reconnect timers that are set
  disabled,   \* the Go Live button is disabled
  mic,        \* its stream: "none", "on" or "ended"
  recorder,   \* its MediaRecorder: "none", "running", "apart" (running on a stream that the
              \* page has replaced), "stopping" (its last chunk is to come), or "dead" (it
              \* lost its stream, and the page goes on showing LIVE)
  headSent,   \* the recorder that runs has emitted its first chunk
  asks,       \* calls of getUserMedia that wait, by who made them: "click" or "test"
  strays,     \* a recorder was replaced while it ran, and goes on running
  \* the hub
  dbRoom,     \* the room has a row
  role,       \* sockets that joined as a broadcaster
  registered, \* broadcaster of the room, or None
  live,       \* the room is live
  initSegment,\* the chunk a listener gets when it joins, or None
  listeners,  \* registered listeners
  \* the listener's page
  joined,     \* the latch of joinRoom
  attempts,   \* reconnectAttempts
  shows,      \* "idle", "connecting", "live", "offline" or "gaveUp"
  media,      \* "none", "opening", "ready", "playing" or "broken"
  first,      \* the first chunk in the queue, until it is appended, or None
  sources,    \* MediaSource URLs that were not revoked
  disturbed   \* history: a broadcast was stopped, joined anew, recorded anew or lost a chunk

capture == <<mic, recorder, headSent, asks, strays>>
page == <<active, ws, disabled, capture>>
hub == <<dbRoom, role, registered, live, initSegment, listeners>>
playback == <<media, first, sources>>
listener == <<joined, attempts, shows, playback>>
vars == <<sock, code, timers, page, hub, listener, disturbed>>

Init ==
  /\ sock = [s \in Socks |-> "free"] /\ code = [s \in Socks |-> "plain"]
  /\ active = FALSE /\ ws = None /\ disabled = FALSE
  /\ timers = [p \in {"b", "l"} |-> 0]
  /\ mic = "none" /\ recorder = "none" /\ headSent = FALSE
  /\ asks = [who \in {"click", "test"} |-> 0] /\ strays = FALSE
  /\ dbRoom = TRUE /\ role = {} /\ registered = None /\ live = FALSE
  /\ initSegment = None /\ listeners = {}
  /\ joined = FALSE /\ attempts = 0 /\ shows = "idle"
  /\ media = "none" /\ first = None /\ sources = 0
  /\ disturbed = FALSE

-----------------------------------------------------------------------------
(* The listener's media source *)

\* (defect: a burst of chunks before 'sourceopen' opens a source for each)
InitMSEAgain == media \in {"none", "opening"}

\* initMSE: nothing while a source is opening.
InitMSE == media = "none"

\* handleAudioChunk and processQueue; a decoder that starts with a chunk in the
\* middle of a stream fails, and whatever is appended later with it.
Hear(chunk) ==
  /\ first' = CASE media = "none" -> chunk
                [] media = "opening" -> first
                [] OTHER -> None
  /\ sources' = IF InitMSE THEN sources + 1 ELSE sources
  /\ media' = CASE media = "none" -> "opening"
                [] media = "ready" -> IF first = "head" THEN "playing" ELSE "broken"
                [] OTHER -> media

\* cleanupPlayback
Cleanup ==
  /\ media' = "none" /\ first' = None
  /\ sources' = IF media = "none" THEN sources ELSE sources - 1

\* 'sourceopen'; of a source that was cleaned up meanwhile it does nothing.
SourceOpens ==
  /\ media = "opening"
  /\ media' = "ready"
  /\ UNCHANGED <<sock, code, timers, page, hub, joined, attempts, shows, first, sources, disturbed>>

-----------------------------------------------------------------------------
(* The hub *)

Hearing == \E l \in listeners : sock[l] = "open"

\* The status frame, to every listener of the room whose socket is open.
Told(isLive) ==
  shows' = IF Hearing THEN (IF isLive THEN "live" ELSE "offline") ELSE shows

\* stream-ended and the status that follows it
EndBroadcast ==
  /\ live' = FALSE
  /\ initSegment' = None
  /\ Told(FALSE)
  /\ IF Hearing THEN Cleanup ELSE UNCHANGED playback

\* A binary frame of a socket that joined as a broadcaster; the room need not be
\* live.
Frame(chunk) ==
  /\ initSegment' = IF initSegment = None THEN chunk ELSE initSegment
  /\ IF Hearing THEN Hear(chunk) ELSE UNCHANGED playback
  /\ UNCHANGED <<dbRoom, role, registered, live, listeners, joined, attempts, shows>>

\* The server has not seen the end of the socket.
Held(s) == sock[s] \in {"open", "closing", "half-open"}

\* (defect: the listeners are not told that the broadcast ended)
CloseUntold(s) ==
  /\ IF registered = s
     THEN registered' = None /\ live' = FALSE /\ initSegment' = None
     ELSE UNCHANGED <<registered, live, initSegment>>
  /\ listeners' = listeners \ {s} /\ role' = role \ {s}
  /\ UNCHANGED <<dbRoom, shows, playback>>

\* 'close' on the server: only the registered broadcaster ends the broadcast.
Close(s) ==
  /\ registered' = IF registered = s THEN None ELSE registered
  /\ IF registered = s /\ live THEN EndBroadcast
     ELSE UNCHANGED <<live, initSegment, shows, playback>>
  /\ listeners' = listeners \ {s} /\ role' = role \ {s}
  /\ UNCHANGED dbRoom

\* A close frame arrives, or the heartbeat finds no peer: a socket may break at any time.
ServerSees(s) == sock[s] \in {"closing", "half-open", "open"}

ServerCloses(s) ==
  /\ ServerSees(s)
  /\ sock' = [sock EXCEPT ![s] = IF @ = "half-open" THEN "free" ELSE "dropped"]
  /\ Close(s)
  /\ UNCHANGED <<code, timers, page, joined, attempts, disturbed>>

\* The process restarts: no room is in its memory, and its sockets are gone.
HubRestarts ==
  /\ sock' = [s \in Socks |-> CASE sock[s] = "half-open" -> "free"
                                [] sock[s] \in {"open", "closing"} -> "dropped"
                                [] OTHER -> sock[s]]
  /\ role' = {} /\ registered' = None /\ live' = FALSE
  /\ initSegment' = None /\ listeners' = {}
  /\ UNCHANGED <<code, timers, page, dbRoom, listener, disturbed>>

\* deleteRoom drops the room's state, and the sockets stay where they are.
DeleteRoom ==
  /\ dbRoom
  /\ dbRoom' = FALSE
  /\ registered' = None /\ live' = FALSE /\ initSegment' = None /\ listeners' = {}
  /\ disturbed' = (disturbed \/ headSent)
  /\ UNCHANGED <<sock, code, timers, page, role, listener>>

CreateRoom ==
  /\ ~dbRoom
  /\ dbRoom' = TRUE
  /\ UNCHANGED <<sock, code, timers, page, role, registered, live, initSegment, listeners, listener, disturbed>>

-----------------------------------------------------------------------------
(* The broadcaster's page *)

\* connect() of page p: a socket of its own that is free.
Connects(s) ==
  /\ sock[s] = "free"
  /\ sock' = [sock EXCEPT ![s] = "connecting"]
  /\ UNCHANGED code

\* initBroadcast, from the room picker
SelectRoom(s) ==
  /\ ~active
  /\ active' = TRUE
  /\ ws' = s /\ Connects(s)
  /\ UNCHANGED <<timers, disabled, capture, hub, listener, disturbed>>

\* disconnectBroadcast: a socket that is still connecting is only forgotten, and
\* a recorder that runs goes on running.
LeaveRoom ==
  /\ active
  /\ active' = FALSE
  /\ sock' = IF ws # None /\ sock[ws] = "open" THEN [sock EXCEPT ![ws] = "closing"] ELSE sock
  /\ ws' = None
  /\ UNCHANGED <<code, timers, disabled, capture, hub, listener, disturbed>>

\* A reconnect timer fires.
Reconnect(s) ==
  /\ timers["b"] > 0
  /\ timers' = [timers EXCEPT !["b"] = @ - 1]
  /\ IF active THEN ws' = s /\ Connects(s) ELSE UNCHANGED <<ws, sock, code>>
  /\ UNCHANGED <<active, disabled, capture, hub, listener, disturbed>>

Occupied == registered # None /\ Held(registered)

\* The join frame: refused, which disables the button, or accepted.
JoinAsBroadcaster(s) ==
  IF ~dbRoom \/ Occupied
  THEN /\ sock' = [sock EXCEPT ![s] = "dropped"]
       /\ disabled' = TRUE
       /\ UNCHANGED hub
  ELSE /\ sock' = [sock EXCEPT ![s] = "open"]
       /\ role' = role \cup {s}
       /\ registered' = s /\ initSegment' = None
       /\ UNCHANGED <<disabled, dbRoom, live, listeners>>

\* onopen sends the join on the page's current socket, which need not be the
\* one that has opened: that one is then in no room.
BroadcasterOpens(s) ==
  /\ sock[s] = "connecting"
  /\ IF ws = s THEN JoinAsBroadcaster(s)
     ELSE /\ sock' = [sock EXCEPT ![s] = "open"]
          /\ disabled' = (disabled \/ (ws # None /\ sock[ws] = "open"))
          /\ UNCHANGED hub
  /\ disturbed' = (disturbed \/ headSent)
  /\ UNCHANGED <<code, timers, active, ws, capture, listener>>

\* The page can see the end of its socket: it was refused, dropped, or lost.
PageSees(s) == sock[s] \in {"connecting", "open", "closing", "dropped"}

\* What is left of it on the server.
Left(s) == IF sock[s] \in {"open", "closing"} THEN "half-open" ELSE "free"

\* onclose reconnects as long as a room is selected, whichever socket it was.
Retries == active

BroadcasterLoses(s) ==
  /\ PageSees(s)
  /\ sock' = [sock EXCEPT ![s] = Left(s)]
  /\ IF Retries
     THEN timers["b"] < MaxTimers /\ timers' = [timers EXCEPT !["b"] = @ + 1]
     ELSE UNCHANGED timers
  /\ UNCHANGED <<code, page, hub, listener, disturbed>>

\* What the page sends on its current socket comes from a broadcaster of the hub.
Carries == ws # None /\ sock[ws] = "open" /\ ws \in role

\* The go-live frame on the current socket, if it is open.
SendGoLive ==
  IF Carries /\ ~live
  THEN live' = TRUE /\ Told(TRUE)
  ELSE UNCHANGED <<live, shows>>

\* getUserMedia: the page asks, and goes on in a later step.
Asks(who) ==
  /\ mic = "none"
  /\ asks["click"] + asks["test"] < MaxAsks
  /\ asks' = [asks EXCEPT ![who] = @ + 1]

Answered(who) == asks[who] > 0 /\ asks' = [asks EXCEPT ![who] = @ - 1]

\* The Go Live button, hidden while the page shows LIVE, and not disabled while a
\* click waits for the microphone.
MayClick == active /\ ~disabled /\ recorder = "none"

ClickAsks ==
  /\ MayClick
  /\ Asks("click")
  /\ UNCHANGED <<sock, code, timers, active, ws, disabled, mic, recorder, headSent, strays,
                 hub, listener, disturbed>>

\* A click while the page has a stream: on one whose tracks have ended the
\* recorder does not start, and go-live was sent all the same.
ClickLive ==
  /\ MayClick
  /\ mic # "none"
  /\ SendGoLive
  /\ recorder' = IF mic = "ended" THEN "none" ELSE "running"
  /\ headSent' = FALSE
  /\ UNCHANGED <<sock, code, timers, active, ws, disabled, mic, asks, strays, dbRoom, role,
                 registered, initSegment, listeners, joined, attempts, playback, disturbed>>

Running == recorder \in {"running", "apart"}

NextChunk == IF headSent THEN "mid" ELSE "head"

\* The click that waited goes on with a stream of its own, whatever has happened
\* meanwhile: a recorder that runs is replaced and goes on running.  (The last chunk
\* of a recorder follows its end within milliseconds: no answer between.)
ClickResumes ==
  /\ Answered("click") /\ recorder # "stopping"
  /\ mic' = "on"
  /\ SendGoLive
  /\ strays' = (strays \/ Running)
  /\ recorder' = "running" /\ headSent' = FALSE
  /\ disturbed' = (disturbed \/ recorder # "none")
  /\ UNCHANGED <<sock, code, timers, active, ws, disabled, dbRoom, role, registered,
                 initSegment, listeners, joined, attempts, playback>>

\* The microphone is denied.
MicDenied ==
  /\ \E who \in {"click", "test"} : Answered(who)
  /\ UNCHANGED <<sock, code, timers, active, ws, disabled, mic, recorder, headSent, strays,
                 hub, listener, disturbed>>

\* ondataavailable, every 250 ms and once more after stop(): sent whenever the
\* current socket is open, after a reconnection as well.
Chunk ==
  /\ Running \/ recorder = "stopping"
  /\ headSent' = Running
  /\ recorder' = IF Running THEN recorder ELSE "none"
  /\ IF Carries
     THEN Frame(NextChunk) /\ UNCHANGED disturbed
     ELSE disturbed' = TRUE /\ UNCHANGED <<hub, listener>>
  /\ UNCHANGED <<sock, code, timers, active, ws, disabled, mic, asks, strays>>

\* The same of a recorder that was replaced (before its first chunk, perhaps); nothing
\* stops it before the page is left.
StrayChunk ==
  /\ strays
  /\ \E chunk \in {"head", "mid"} :
       IF Carries THEN Frame(chunk) ELSE UNCHANGED <<hub, listener>>
  /\ UNCHANGED <<sock, code, timers, active, ws, disabled, capture, disturbed>>

\* The Stop button: the frame is sent before the recorder's last chunk, and the
\* ended stream is kept.
ClickStop ==
  /\ active /\ (Running \/ recorder = "dead")
  /\ recorder' = IF Running THEN "stopping" ELSE "none"
  /\ mic' = IF mic = "on" THEN "ended" ELSE mic
  /\ disturbed' = TRUE
  /\ IF Carries
     THEN EndBroadcast
     ELSE UNCHANGED <<live, initSegment, shows, playback>>
  /\ UNCHANGED <<sock, code, timers, active, ws, disabled, headSent, asks, strays, dbRoom, role,
                 registered, listeners, joined, attempts>>

\* A test of the microphone may start and end on the air as well.  (No click between
\* the end of a recorder and its last chunk.)
MayTest == active /\ recorder # "stopping"

\* startMicTest keeps a stream that the page has, even an ended one: such a test
\* changes nothing here, and needs no state of its own.
TestAsks ==
  /\ MayTest
  /\ Asks("test")
  /\ UNCHANGED <<sock, code, timers, active, ws, disabled, mic, recorder, headSent, strays,
                 hub, listener, disturbed>>

\* The test goes on with a stream of its own; the one that is recorded may be replaced.
TestResumes ==
  /\ Answered("test")
  /\ mic' = "on"
  /\ recorder' = IF Running THEN "apart" ELSE recorder
  /\ UNCHANGED <<sock, code, timers, active, ws, disabled, headSent, strays, hub, listener, disturbed>>

\* stopMicTest ends the tracks and drops the stream, though it be the one that is
\* recorded: the recorder ends with them (its last chunk is a Chunk before this
\* step), and no stop is sent.
MicTestEnds ==
  /\ MayTest /\ mic # "none"
  /\ mic' = "none"
  /\ recorder' = IF recorder = "running" THEN "dead" ELSE recorder
  /\ headSent' = (headSent /\ recorder = "apart")
  /\ UNCHANGED <<sock, code, timers, active, ws, disabled, asks, strays, hub, listener, disturbed>>

-----------------------------------------------------------------------------
(* The listener's page *)

\* (defect: a second click opens a second socket)
MayJoinTwice == TRUE

\* The latch of joinRoom: the user and the resume link may both click Join.
MayJoin == ~joined

JoinRoom(s) ==
  /\ MayJoin
  /\ joined' = TRUE
  /\ shows' = "connecting"
  /\ Connects(s)
  /\ UNCHANGED <<timers, page, hub, attempts, playback, disturbed>>

ListenerReconnects(s) ==
  /\ timers["l"] > 0
  /\ timers' = [timers EXCEPT !["l"] = @ - 1]
  /\ Connects(s)
  /\ UNCHANGED <<page, hub, listener, disturbed>>

\* (defect: a late listener is not given the init segment)
NotGiven == None

\* What a listener that joins is sent first.
Given == initSegment

\* onopen and the join frame.  The room is gone, or its password was wrong
\* ("plain"), the room is full ("full"), or the address has too many sockets
\* ("many"); else the listener is told and given the init segment.
ListenerOpens(s) ==
  /\ sock[s] = "connecting"
  /\ attempts' = 0
  /\ \/ \E why \in {"plain", "full", "many"} :
          /\ why = "full" => dbRoom
          /\ sock' = [sock EXCEPT ![s] = "dropped"]
          /\ code' = [code EXCEPT ![s] = why]
          /\ UNCHANGED <<hub, shows, playback>>
     \/ /\ dbRoom
        /\ sock' = [sock EXCEPT ![s] = "open"]
        /\ listeners' = listeners \cup {s}
        /\ shows' = IF live THEN "live" ELSE "offline"
        /\ IF Given = None THEN UNCHANGED playback ELSE Hear(Given)
        /\ UNCHANGED <<code, dbRoom, role, registered, live, initSegment>>
  /\ UNCHANGED <<timers, page, joined, disturbed>>

\* A permanent rejection, or too many failures in a row.
GivesUp(s) == code[s] = "many" \/ (code[s] = "plain" /\ attempts >= MaxReconnect)

\* onclose
ListenerLoses(s) ==
  /\ PageSees(s)
  /\ sock' = [sock EXCEPT ![s] = Left(s)]
  /\ code' = [code EXCEPT ![s] = "plain"]
  /\ Cleanup
  /\ IF GivesUp(s)
     THEN shows' = "gaveUp" /\ UNCHANGED <<timers, attempts>>
     ELSE /\ timers["l"] < MaxTimers
          /\ timers' = [timers EXCEPT !["l"] = @ + 1]
          /\ attempts' = IF code[s] = "full" THEN attempts ELSE attempts + 1
          /\ shows' = "connecting"
  /\ UNCHANGED <<page, hub, joined, disturbed>>

Next ==
  \/ \E s \in BSocks : \/ SelectRoom(s) \/ Reconnect(s) \/ BroadcasterOpens(s) \/ BroadcasterLoses(s)
  \/ \E s \in LSocks : \/ JoinRoom(s) \/ ListenerReconnects(s) \/ ListenerOpens(s) \/ ListenerLoses(s)
  \/ \E s \in Socks : ServerCloses(s)
  \/ LeaveRoom \/ ClickAsks \/ ClickLive \/ ClickResumes \/ MicDenied \/ ClickStop
  \/ Chunk \/ StrayChunk \/ TestAsks \/ TestResumes \/ MicTestEnds
  \/ SourceOpens
  \/ HubRestarts \/ DeleteRoom \/ CreateRoom

Spec == Init /\ [][Next]_vars

-----------------------------------------------------------------------------
(* Properties *)

\* Every variable has its type.
TypeOK ==
  /\ sock \in [Socks -> {"free", "connecting", "open", "closing", "dropped", "half-open"}]
  /\ code \in [Socks -> {"plain", "full", "many"}]
  /\ active \in BOOLEAN /\ ws \in BSocks \cup {None} /\ disabled \in BOOLEAN
  /\ timers \in [{"b", "l"} -> 0..MaxTimers]
  /\ mic \in {"none", "on", "ended"}
  /\ recorder \in {"none", "running", "apart", "stopping", "dead"} /\ headSent \in BOOLEAN
  /\ asks \in [{"click", "test"} -> 0..MaxAsks] /\ strays \in BOOLEAN
  /\ dbRoom \in BOOLEAN /\ role \subseteq BSocks /\ registered \in BSocks \cup {None}
  /\ live \in BOOLEAN /\ initSegment \in {None, "head", "mid"} /\ listeners \subseteq LSocks
  /\ joined \in BOOLEAN /\ attempts \in 0..MaxReconnect
  /\ shows \in {"idle", "connecting", "live", "offline", "gaveUp"}
  /\ media \in {"none", "opening", "ready", "playing", "broken"}
  /\ first \in {None, "head", "mid"} /\ sources \in Nat
  /\ disturbed \in BOOLEAN

\* The sockets of the listener's page whose end it has not seen.
Connections == {l \in LSocks : sock[l] \in {"connecting", "open", "closing", "dropped"}}

\* A listener who clicked Join has one connection or one timer that will make
\* one, until the page gives up: never two reconnect ladders, whose streams would
\* mix in one source buffer, and never none (listen.js:197, the latch).
OneLadder ==
  Cardinality(Connections) + timers["l"] = IF joined /\ shows # "gaveUp" THEN 1 ELSE 0

\* A listener the hub counts sees whether the room is live, whatever the
\* broadcaster's page and its sockets have been through (listen.js:302).
ShownLive == Hearing => shows = IF live THEN "live" ELSE "offline"

\* A page has one MediaSource at a time, and none once it is cleaned up: a burst
\* of chunks before 'sourceopen' opens one (listen.js:803).
OneSource == sources = IF media = "none" THEN 0 ELSE 1

\* Until a broadcast is stopped, joined or recorded anew or loses a chunk, whoever listens,
\* from the start, late, or again after a lost connection, has a decoder that
\* began with the head of the stream (streaming.js:221, the init segment).
Decodes == ~disturbed => media # "broken" /\ initSegment # "mid"

\* Who joined as a broadcaster is a socket that the server holds.
RoleHeld == \A s \in role : Held(s)

\* The page's current socket is displaced by no other one of the page.
CurrentRegistered == ws \in role => registered \in {None, ws}

\* Why Decodes holds: while an undisturbed stream gets through, the hub has its
\* head, and who listens has begun with it.
HeadKept ==
  ~disturbed =>
    /\ ~strays
    /\ media \in {"opening", "ready"} => first = "head"
    /\ headSent /\ Carries => initSegment = "head" /\ (Hearing => media # "none")

\* The inductive invariant.
IInv ==
  /\ TypeOK /\ OneSource /\ OneLadder /\ ShownLive
  /\ RoleHeld /\ CurrentRegistered /\ Decodes /\ HeadKept
=============================================================================
