----------------------------- MODULE Streaming -----------------------------
(***************************************************************************)
(* The live-audio hub of one room: server/streaming.js (handleConnection,  *)
(* stopBroadcast) over the in-memory room table of server/rooms.js.        *)
(*                                                                         *)
(* One Node process runs every handler to completion, so a handler is one  *)
(* action.  The exception is the join of a listener to a password room:    *)
(* it awaits the password KDF, and everything else may run in between, so  *)
(* it is two actions (JoinPassword, then KdfDone).                         *)
(*                                                                         *)
(* Rooms share no state (every handler works on getRoomState(orgId, slug)  *)
(* of its own socket), so one room is modelled.  What deleteRoom drops     *)
(* from the table is kept as an older GENERATION of the room, because a    *)
(* handler suspended at its await still holds a reference to it.           *)
(***************************************************************************)
EXTENDS Integers, FiniteSets

CONSTANTS
    Sockets,        \* identities of WebSocket objects; one is reused only once nothing refers to it
    Broadcasters,   \* the sockets whose upgrade request carried a broadcaster's session
    MaxListeners,   \* MAX_LISTENERS_PER_ROOM
    MaxGen,         \* bound: how often the room is deleted
    OrgMayGo,       \* bound: the organization may be deleted
    Recordings,     \* bound: write streams that exist at a time
    Nobody,         \* null, where a socket is expected
    NoRec           \* null, where a recording stream is expected

ASSUME StreamingAssumption ==
    /\ IsFiniteSet(Sockets)
    /\ Broadcasters \subseteq Sockets
    /\ MaxListeners \in Nat
    /\ MaxGen \in Nat
    /\ OrgMayGo \in BOOLEAN
    /\ Nobody \notin Sockets
    /\ NoRec \notin Recordings

Gens == 0 .. MaxGen

VARIABLES
    \* --- the ws library's view of each socket ---
    conn,           \* readyState: open = OPEN; closing = close() called here, the peer's frames
                    \* still arrive; ending = destroyed or closed by the peer, 'close' not yet
                    \* emitted; closed = 'close' emitted (or never connected)
    peerUp,         \* the peer is there: it sends frames and answers pings
    \* --- closure variables of handleConnection, per socket ---
    joinHandled,
    role,           \* assignedRole
    at,             \* the generation whose state object the join handler looked up
    kdf,            \* the join handler is suspended in verifyPasswordAsync
    alive,
    ticking,        \* heartbeatTimer is running
    rec,            \* recordingStream
    \* --- the room: its row, the liveRooms entry in use, and the entries by generation ---
    org,            \* the organization exists
    dbRoom,         \* getRoom finds the row
    gen,            \* the generation getRoomState returns
    broadcaster,
    listeners,
    initSegment,    \* Nobody, or the socket that sent it
    live,
    notified,
    \* --- write streams ---
    stream,         \* free; open; saved, discarded = end() called, not yet flushed
    writer          \* the socket whose closure created the stream

link == <<conn, peerUp>>
session == <<joinHandled, role, at, kdf>>
heart == <<alive, ticking>>
table == <<org, dbRoom, gen>>
room == <<broadcaster, listeners, initSegment, live, notified>>
disk == <<rec, stream, writer>>
vars == <<link, session, heart, table, room, disk>>

TypeOK ==
    /\ conn \in [Sockets -> {"open", "closing", "ending", "closed"}]
    /\ peerUp \in [Sockets -> BOOLEAN]
    /\ joinHandled \in [Sockets -> BOOLEAN]
    /\ role \in [Sockets -> {"none", "broadcaster", "listener"}]
    /\ at \in [Sockets -> Gens]
    /\ kdf \in [Sockets -> BOOLEAN]
    /\ alive \in [Sockets -> BOOLEAN]
    /\ ticking \in [Sockets -> BOOLEAN]
    /\ rec \in [Sockets -> Recordings \union {NoRec}]
    /\ org \in BOOLEAN /\ dbRoom \in BOOLEAN
    /\ gen \in Gens
    /\ broadcaster \in [Gens -> Sockets \union {Nobody}]
    /\ listeners \in [Gens -> SUBSET Sockets]
    /\ initSegment \in [Gens -> Sockets \union {Nobody}]
    /\ live \in [Gens -> BOOLEAN]
    /\ notified \in [Gens -> BOOLEAN]
    /\ stream \in [Recordings -> {"free", "open", "saved", "discarded"}]
    /\ writer \in [Recordings -> Sockets \union {Nobody}]

\* Before any client has connected; the room exists, its liveRooms entry is as
\* getRoomState creates it.
Init ==
    /\ conn = [s \in Sockets |-> "closed"]
    /\ peerUp = [s \in Sockets |-> FALSE]
    /\ joinHandled = [s \in Sockets |-> FALSE]
    /\ role = [s \in Sockets |-> "none"]
    /\ at = [s \in Sockets |-> 0]
    /\ kdf = [s \in Sockets |-> FALSE]
    /\ alive = [s \in Sockets |-> TRUE]
    /\ ticking = [s \in Sockets |-> FALSE]
    /\ rec = [s \in Sockets |-> NoRec]
    /\ org = TRUE /\ dbRoom = TRUE
    /\ gen = 0
    /\ broadcaster = [g \in Gens |-> Nobody]
    /\ listeners = [g \in Gens |-> {}]
    /\ initSegment = [g \in Gens |-> Nobody]
    /\ live = [g \in Gens |-> FALSE]
    /\ notified = [g \in Gens |-> FALSE]
    /\ stream = [r \in Recordings |-> "free"]
    /\ writer = [r \in Recordings |-> Nobody]

-----------------------------------------------------------------------------
(* The ws library, from how the handlers use it. *)

\* 'message' events can still fire for s.
Readable(s) == conn[s] \in {"open", "closing"} /\ peerUp[s]

\* ws.close() on every socket of ss: nothing more is sent, the peer's frames still arrive.
Closing(ss) == [s \in Sockets |-> IF s \in ss /\ conn[s] = "open" THEN "closing" ELSE conn[s]]

\* ws.terminate(): the 'close' event follows, in a later turn of the event loop.
Terminated(s) == [conn EXCEPT ![s] = IF @ = "closed" THEN "closed" ELSE "ending"]

\* The process still holds a reference to the socket object s.
Referenced(s) ==
    \/ kdf[s]
    \/ rec[s] # NoRec
    \/ \E g \in Gens : broadcaster[g] = s \/ s \in listeners[g]
    \/ \E r \in Recordings : stream[r] # "free" /\ writer[r] = s

\* A client connects: handleConnection runs with fresh closure variables.
Connect(s) ==
    /\ conn[s] = "closed"
    /\ ~Referenced(s)
    /\ conn' = [conn EXCEPT ![s] = "open"]
    /\ peerUp' = [peerUp EXCEPT ![s] = TRUE]
    /\ joinHandled' = [joinHandled EXCEPT ![s] = FALSE]
    /\ role' = [role EXCEPT ![s] = "none"]
    /\ at' = [at EXCEPT ![s] = gen]
    /\ alive' = [alive EXCEPT ![s] = TRUE]
    /\ ticking' = [ticking EXCEPT ![s] = FALSE]
    /\ UNCHANGED <<kdf, table, room, disk>>

\* The connection ends from outside: closed or reset by the peer, the server's close frame
\* answered, or given up by TCP.
PeerClose(s) ==
    /\ conn[s] \in {"open", "closing"}
    /\ conn' = [conn EXCEPT ![s] = "ending"]
    /\ peerUp' = [peerUp EXCEPT ![s] = FALSE]
    /\ UNCHANGED <<session, heart, table, room, disk>>

\* The peer vanishes without a FIN: the connection stays half-open.
PeerVanish(s) ==
    /\ Readable(s)
    /\ peerUp' = [peerUp EXCEPT ![s] = FALSE]
    /\ UNCHANGED <<conn, session, heart, table, room, disk>>

\* ws destroys a socket whose close frame is not answered in time.
CloseTimeout(s) ==
    /\ conn[s] = "closing"
    /\ conn' = Terminated(s)
    /\ UNCHANGED <<peerUp, session, heart, table, room, disk>>

-----------------------------------------------------------------------------
(* join.  rooms.password is set and cleared at any time (updateRoom) and read once, by the *)
(* join frame: every listener's join may find a password or none.                          *)

Unjoined(s) == role[s] = "none" /\ ~joinHandled[s]

\* The single-shot latch every join frame passes before anything else.
Latch(s) ==
    /\ Readable(s)
    /\ Unjoined(s)
    /\ joinHandled' = [joinHandled EXCEPT ![s] = TRUE]

\* Every refusal answers with an error and closes the socket.
Refuse(s) ==
    /\ conn' = Closing({s})
    /\ UNCHANGED <<peerUp, heart, table, room, disk>>

JoinNoRoom(s) ==
    /\ ~dbRoom
    /\ Latch(s)
    /\ Refuse(s)
    /\ UNCHANGED <<role, at, kdf>>

\* A broadcaster past the mandatory-2FA grace, or of another organization.
JoinNotAllowed(s) ==
    /\ dbRoom /\ s \in Broadcasters
    /\ Latch(s)
    /\ Refuse(s)
    /\ UNCHANGED <<role, at, kdf>>

\* (defect: the open broadcaster is not looked for)
NeverOccupied == FALSE

Occupied == broadcaster[gen] # Nobody /\ conn[broadcaster[gen]] = "open"

JoinOccupied(s) ==
    /\ dbRoom /\ s \in Broadcasters
    /\ Occupied
    /\ Latch(s)
    /\ Refuse(s)
    /\ UNCHANGED <<role, at, kdf>>

\* (defect: the former broadcaster's init segment stays)
ReadyKeepsSegment(s) ==
    /\ broadcaster' = [broadcaster EXCEPT ![gen] = s]
    /\ notified' = [notified EXCEPT ![gen] = FALSE]
    /\ UNCHANGED <<listeners, initSegment, live>>

\* The room's state when s becomes its broadcaster; `live` is left as it is.
Ready(s) ==
    /\ broadcaster' = [broadcaster EXCEPT ![gen] = s]
    /\ initSegment' = [initSegment EXCEPT ![gen] = Nobody]
    /\ notified' = [notified EXCEPT ![gen] = FALSE]
    /\ UNCHANGED <<listeners, live>>

\* The room is free, or its registered broadcaster's socket is no longer open: that one is
\* terminated and its place taken.
JoinBroadcaster(s) ==
    /\ dbRoom /\ s \in Broadcasters
    /\ ~Occupied
    /\ Latch(s)
    /\ conn' = IF broadcaster[gen] = Nobody THEN conn ELSE Terminated(broadcaster[gen])
    /\ role' = [role EXCEPT ![s] = "broadcaster"]
    /\ at' = [at EXCEPT ![s] = gen]
    /\ Ready(s)
    /\ ticking' = [ticking EXCEPT ![s] = TRUE]
    /\ UNCHANGED <<peerUp, kdf, alive, table, disk>>

\* (defect: one too many)
FullOffByOne(g) == Cardinality(listeners[g]) > MaxListeners

Full(g) == Cardinality(listeners[g]) >= MaxListeners

\* (defect: listeners have no heartbeat)
RegisterSilent(s, g) ==
    /\ role' = [role EXCEPT ![s] = "listener"]
    /\ listeners' = [listeners EXCEPT ![g] = @ \union {s}]
    /\ UNCHANGED <<link, heart, table, broadcaster, initSegment, live, notified, disk>>

Register(s, g) ==
    /\ role' = [role EXCEPT ![s] = "listener"]
    /\ listeners' = [listeners EXCEPT ![g] = @ \union {s}]
    /\ ticking' = [ticking EXCEPT ![s] = TRUE]
    /\ UNCHANGED <<link, alive, table, broadcaster, initSegment, live, notified, disk>>

\* The tail of the listener branch, on the state object g: capacity check and registration
\* run in one turn of the event loop.
Admit(s, g) ==
    \/ Full(g) /\ Refuse(s) /\ UNCHANGED role
    \/ ~Full(g) /\ Register(s, g)

JoinListener(s) ==
    /\ dbRoom
    /\ Latch(s)
    /\ at' = [at EXCEPT ![s] = gen]
    /\ Admit(s, gen)
    /\ UNCHANGED kdf

\* Too many failed passwords from this address.
JoinThrottled(s) ==
    /\ dbRoom
    /\ Latch(s)
    /\ Refuse(s)
    /\ UNCHANGED <<role, at, kdf>>

\* The handler reaches `await verifyPasswordAsync` holding the state object it looked up.
JoinPassword(s) ==
    /\ dbRoom
    /\ Latch(s)
    /\ at' = [at EXCEPT ![s] = gen]
    /\ kdf' = [kdf EXCEPT ![s] = TRUE]
    /\ UNCHANGED <<link, role, heart, table, room, disk>>

\* The handler resumes, whatever has become of the socket: wrong password, or admission.
KdfDone(s) ==
    /\ kdf[s]
    /\ kdf' = [kdf EXCEPT ![s] = FALSE]
    /\ \/ Refuse(s) /\ UNCHANGED role
       \/ Admit(s, at[s])
    /\ UNCHANGED <<joinHandled, at>>

-----------------------------------------------------------------------------
(* The broadcaster's frames *)

\* (defect: the closure forgets the stream without ending it)
EndRecordingUnended(s) ==
    /\ rec' = [rec EXCEPT ![s] = NoRec]
    /\ UNCHANGED <<stream, writer>>

\* stopBroadcast ends the recording (the row is added, or a too short file is removed, before
\* the stream has flushed; no row can be added for an organization that is gone) and its
\* caller forgets it.
EndRecording(s) ==
    \/ rec[s] = NoRec /\ UNCHANGED disk
    \/ /\ rec[s] # NoRec
       /\ \E outcome \in {"saved", "discarded"} :
            /\ outcome = "saved" => org
            /\ stream' = [stream EXCEPT ![rec[s]] = outcome]
       /\ rec' = [rec EXCEPT ![s] = NoRec]
       /\ UNCHANGED writer

\* (defect: live is not reset)
StopBroadcastStaysLive(s) ==
    /\ initSegment' = [initSegment EXCEPT ![gen] = Nobody]
    /\ EndRecording(s)
    /\ UNCHANGED live

StopBroadcast(s) ==
    /\ live' = [live EXCEPT ![gen] = FALSE]
    /\ initSegment' = [initSegment EXCEPT ![gen] = Nobody]
    /\ EndRecording(s)

\* (defect: a second go-live is not ignored)
MayGoLiveAgain(s) == Readable(s) /\ role[s] = "broadcaster"

\* 'go-live' is ignored when the room is live already.
MayGoLive(s) == Readable(s) /\ role[s] = "broadcaster" /\ ~live[gen]

GoLive(s) ==
    /\ MayGoLive(s)
    /\ live' = [live EXCEPT ![gen] = TRUE]
    /\ \E r \in Recordings :
        /\ stream[r] = "free"
        /\ stream' = [stream EXCEPT ![r] = "open"]
        /\ writer' = [writer EXCEPT ![r] = s]
        /\ rec' = [rec EXCEPT ![s] = r]
    /\ UNCHANGED <<link, session, heart, table, broadcaster, listeners, initSegment, notified>>

\* A media frame: the first one becomes the init segment (and, once per registration, notifies
\* the subscribers); it is fanned out to the open listeners, and those whose send buffer is
\* over the threshold are closed and dropped from the room.
Frame(s) ==
    /\ Readable(s) /\ role[s] = "broadcaster"
    /\ initSegment' = [initSegment EXCEPT ![gen] = IF @ = Nobody THEN s ELSE @]
    /\ notified' = [notified EXCEPT ![gen] = @ \/ initSegment[gen] = Nobody]
    /\ \E slow \in SUBSET {l \in listeners[gen] : conn[l] = "open"} :
        /\ listeners' = [listeners EXCEPT ![gen] = @ \ slow]
        /\ conn' = Closing(slow)
    /\ UNCHANGED <<peerUp, session, heart, table, broadcaster, live, disk>>

\* (defect: the heartbeat ends with the broadcast)
StopHeartbeatToo(s) ==
    /\ Readable(s) /\ role[s] = "broadcaster"
    /\ StopBroadcast(s)
    /\ ticking' = [ticking EXCEPT ![s] = FALSE]
    /\ UNCHANGED <<link, session, alive, table, broadcaster, listeners, notified>>

\* 'stop': the socket stays registered, and its heartbeat stays on.
Stop(s) ==
    /\ Readable(s) /\ role[s] = "broadcaster"
    /\ StopBroadcast(s)
    /\ UNCHANGED <<link, session, heart, table, broadcaster, listeners, notified>>

-----------------------------------------------------------------------------
(* Callbacks: 'close', heartbeat, write stream *)

\* (defect: the identity guard is dropped)
IsAnyBroadcaster(s) == role[s] = "broadcaster"

\* The identity guard of the 'close' handler.
IsCurrentBroadcaster(s) == role[s] = "broadcaster" /\ broadcaster[gen] = s

\* Only the socket that is the registered broadcaster tears the broadcast down.
OnClose(s) ==
    /\ conn[s] = "ending"
    /\ conn' = [conn EXCEPT ![s] = "closed"]
    /\ ticking' = [ticking EXCEPT ![s] = FALSE]
    /\ \/ /\ IsCurrentBroadcaster(s)
          /\ broadcaster' = [broadcaster EXCEPT ![gen] = Nobody]
          /\ \/ live[gen] /\ StopBroadcast(s)
             \/ ~live[gen] /\ UNCHANGED <<live, initSegment, disk>>
          /\ UNCHANGED <<listeners, notified>>
       \/ /\ role[s] = "listener"
          /\ listeners' = [listeners EXCEPT ![gen] = @ \ {s}]
          /\ UNCHANGED <<broadcaster, initSegment, live, notified, disk>>
       \/ /\ role[s] # "listener" /\ ~IsCurrentBroadcaster(s)
          /\ UNCHANGED <<room, disk>>
    /\ UNCHANGED <<peerUp, session, alive, table>>

\* The 30-second timer: a socket that has not answered the last ping is terminated.
\* On a destroyed socket ping and terminate do nothing.
Heartbeat(s) ==
    /\ ticking[s] /\ conn[s] \in {"open", "closing"}
    /\ \/ ~alive[s] /\ conn' = Terminated(s) /\ UNCHANGED alive
       \/ alive[s] /\ alive' = [alive EXCEPT ![s] = FALSE] /\ UNCHANGED conn
    /\ UNCHANGED <<peerUp, session, ticking, table, room, disk>>

Pong(s) ==
    /\ Readable(s) /\ ~alive[s]
    /\ alive' = [alive EXCEPT ![s] = TRUE]
    /\ UNCHANGED <<link, session, ticking, table, room, disk>>

\* 'error' on a stream, possibly after end(): the handler destroys and forgets whatever
\* recordingStream of its closure then is.
StreamError(r) ==
    /\ stream[r] # "free"
    /\ LET s == writer[r]
       IN /\ stream' = [q \in Recordings |-> IF q \in {r, rec[s]} THEN "free" ELSE stream[q]]
          /\ rec' = [rec EXCEPT ![s] = NoRec]
    /\ UNCHANGED <<link, session, heart, table, room, writer>>

\* An ended stream has flushed and closes.
StreamFlushed(r) ==
    /\ stream[r] \in {"saved", "discarded"}
    /\ stream' = [stream EXCEPT ![r] = "free"]
    /\ UNCHANGED <<link, session, heart, table, room, rec, writer>>

-----------------------------------------------------------------------------
(* The room's row *)

\* deleteRoom: the row and the liveRooms entry go, the sockets stay; the next getRoomState
\* creates a fresh entry.
DeleteRoom ==
    /\ dbRoom /\ gen < MaxGen
    /\ dbRoom' = FALSE
    /\ gen' = gen + 1
    /\ UNCHANGED <<link, session, heart, org, room, disk>>

CreateRoom ==
    /\ org /\ ~dbRoom
    /\ dbRoom' = TRUE
    /\ UNCHANGED <<link, session, heart, org, gen, room, disk>>

\* executeOrgDeletion: the rows go and the liveRooms entry stays; the organization's id is never
\* used again, and neither is the key of the entry.  (What is logged of the room from then on
\* throws, after everything that its handler changes here.)
DeleteOrganization ==
    /\ org /\ OrgMayGo
    /\ org' = FALSE /\ dbRoom' = FALSE
    /\ UNCHANGED <<link, session, heart, gen, room, disk>>

-----------------------------------------------------------------------------
Join(s) ==
    \/ JoinNoRoom(s) \/ JoinNotAllowed(s) \/ JoinOccupied(s) \/ JoinBroadcaster(s)
    \/ JoinListener(s) \/ JoinThrottled(s) \/ JoinPassword(s)

Next ==
    \/ \E s \in Sockets :
        \/ Connect(s) \/ PeerClose(s) \/ PeerVanish(s) \/ CloseTimeout(s)
        \/ Join(s) \/ KdfDone(s)
        \/ GoLive(s) \/ Frame(s) \/ Stop(s)
        \/ OnClose(s) \/ Heartbeat(s) \/ Pong(s)
    \/ \E r \in Recordings : StreamError(r) \/ StreamFlushed(r)
    \/ DeleteRoom \/ CreateRoom \/ DeleteOrganization

Spec == Init /\ [][Next]_vars

\* What the process and the ws library do without anybody's help: timers fire, a 'close' event
\* follows the end of its socket, a KDF job finishes.  Nothing is assumed of any peer.
Fairness ==
    \A s \in Sockets :
        /\ WF_vars(Heartbeat(s))
        /\ WF_vars(CloseTimeout(s))
        /\ WF_vars(OnClose(s))
        /\ WF_vars(KdfDone(s))

FairSpec == Spec /\ Fairness

-----------------------------------------------------------------------------
(* Safety *)

\* The listener cap holds on every state object, although the check of a password join runs
\* long after the join frame arrived, and other joins are admitted in between.
CapacityRespected == \A g \in Gens : Cardinality(listeners[g]) <= MaxListeners

\* A socket is never registered both as a listener and as a broadcaster, nor as a listener of
\* two state objects: the latch is set before the await, so a second join frame arriving
\* while the first is suspended is refused.
OneRegistration ==
    \A s \in Sockets, g \in Gens : s \in listeners[g] =>
        /\ role[s] = "listener" /\ at[s] = g
        /\ \A h \in Gens : broadcaster[h] # s

\* Whoever can still send media to the room it joined is the room's registered broadcaster:
\* a take-over leaves no second source behind.
SoleBroadcaster ==
    \A s \in Sockets :
        role[s] = "broadcaster" /\ at[s] = gen /\ Readable(s) => broadcaster[gen] = s

\* The rest of the safety properties hold as long as the room is not deleted under its
\* broadcaster: after that its socket keeps acting on a state object it is not registered in.
NeverDeleted == gen = 0

\* A room is announced live only while somebody is registered to broadcast in it: whatever
\* order stop, close and take-over come in, no room stays live after its broadcaster.
LiveHasBroadcaster == NeverDeleted => (live[gen] => broadcaster[gen] # Nobody)

\* The init segment handed to joining listeners is never one of a former broadcaster, once
\* a new one is registered.
InitSegmentFromBroadcaster ==
    NeverDeleted /\ broadcaster[gen] # Nobody =>
        initSegment[gen] \in {Nobody, broadcaster[gen]}

\* A stream that is still being recorded to is held by the closure that opened it: it is never
\* overwritten by the next recording, so it can be ended.
OpenStreamHeld ==
    NeverDeleted => \A r \in Recordings : stream[r] = "open" => rec[writer[r]] = r

\* An open socket registered as the broadcaster is never displaced, by a competing join, by the
\* late close of the one it replaced, or otherwise.
OpenBroadcasterKept ==
    [][\A g \in Gens :
        broadcaster[g] # Nobody /\ broadcaster'[g] # broadcaster[g] => conn[broadcaster[g]] # "open"]_vars

\* A live broadcast ends only by its registered broadcaster's own stop or close.
LiveEndsWithBroadcaster ==
    [][\A b \in Sockets :
        NeverDeleted /\ live[gen] /\ ~live'[gen] /\ broadcaster[gen] = b => Stop(b) \/ OnClose(b)]_vars

-----------------------------------------------------------------------------
(* What makes the invariants above inductive *)

\* The latch precedes the await, and only sockets past it are closed by the server.
Handshake ==
    \A s \in Sockets :
        /\ role[s] # "none" \/ kdf[s] => joinHandled[s]
        /\ kdf[s] => role[s] = "none"
        /\ conn[s] = "closing" => joinHandled[s] /\ role[s] # "broadcaster"
        /\ at[s] <= gen

Registered ==
    \A s \in Sockets, g \in Gens : broadcaster[g] = s => role[s] = "broadcaster" /\ at[s] = g

\* A recordingStream is open and its own closure's; while its holder is registered in a room
\* that was not deleted, the room is live.
RecordingOwned ==
    /\ \A r \in Recordings : stream[r] # "free" => writer[r] \in Sockets
    /\ \A s \in Sockets : rec[s] # NoRec =>
        /\ role[s] = "broadcaster"
        /\ stream[rec[s]] = "open" /\ writer[rec[s]] = s
        /\ NeverDeleted /\ broadcaster[gen] = s => live[gen]

\* The inductive invariant of the hub.
IInv ==
    /\ TypeOK
    /\ Handshake /\ Registered /\ OneRegistration /\ SoleBroadcaster
    /\ CapacityRespected
    /\ LiveHasBroadcaster /\ InitSegmentFromBroadcaster
    /\ RecordingOwned /\ OpenStreamHeld

-----------------------------------------------------------------------------
(* The abstract room *)

OpenSockets == {s \in Sockets : conn[s] = "open"}

\* The broadcaster's place of the room's first state object is what Stage says.
Room == INSTANCE Stage WITH
    Clients <- Sockets,
    connected <- OpenSockets,
    owner <- broadcaster[0],
    onAir <- live[0]

ImplementsStage == Room!Spec

-----------------------------------------------------------------------------
(* Liveness, under FairSpec *)

\* A broadcaster that died silently, on the air or after a stop, does not keep the room.
DeadBroadcasterFreesRoom ==
    \A s \in Sockets :
        broadcaster[gen] = s /\ ~Readable(s) ~> broadcaster[gen] # s

\* A listener that died silently after its admission does not keep its capacity slot: the
\* missed pong terminates the socket, and its 'close' frees the slot.
DeadListenerFreesSlot ==
    \A s \in Sockets :
        s \in listeners[gen] /\ ~Readable(s) /\ conn[s] # "closed" ~> s \notin listeners[gen]

\* The recording of a broadcaster that died is ended, whatever it died of, unless the room was
\* deleted or another broadcaster got in before its 'close' event.
DeadBroadcasterRecordingEnds ==
    \A r \in Recordings :
        stream[r] = "open" /\ broadcaster[gen] = writer[r] /\ ~Readable(writer[r])
            ~> \/ stream[r] # "open"
               \/ ~NeverDeleted \/ broadcaster[gen] \notin {Nobody, writer[r]}
=============================================================================
