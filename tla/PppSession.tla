---- MODULE PppSession ----
(*****************************************************************************)
(* One PPPP session: the client (pppp/client/client.go), the service that    *)
(* opens, watches and closes it (service/pppp.go), the probe that borrows    *)
(* none of it, and the printers on the LAN.  The client's Run goroutine and  *)
(* the goroutine that closes it share `state`; each of them looks at it in   *)
(* one step and acts in a later one.                                         *)
(*                                                                           *)
(* A datagram may be lost where it is sent, and may be late as long as it is *)
(* in `inbox`.  Channels and their data are DrwChannel's.  Time is reduced   *)
(* to the deadlines that pass: the connection timeout, and 15 s of silence.  *)
(*****************************************************************************)
EXTENDS Naturals, FiniteSets

CONSTANTS
    Neighbour,    \* is there another printer on the LAN?
    MaxInFlight   \* bound on the datagrams on their way to the client

VARIABLES
    state,     \* "idle", "connecting", "connected" or "disconnected"
    run,       \* where the goroutine of Run is
    ctx,       \* is the context of Run alive?
    open,      \* is the UDP socket open?
    known,     \* were search addresses set (the printer's address is known)?
    addr,      \* the remote address: "all" (broadcast), "own" or "other"
    pong,      \* the age of lastPong: "none", "fresh" or "stale"
    user,      \* where the goroutine that owns the client is
    asProbe,   \* is the owner ProbePPPP, rather than the service?
    connected, \* the local `connected` of WorkerRun
    persisted, \* the address this session wrote to the configuration
    printer,   \* the own printer: "idle", "session" or "gone"
    inbox      \* datagrams on their way to the client

clientVars == <<state, run, ctx, open, known, addr, pong>>
ownerVars == <<user, asProbe, connected, persisted>>
vars == <<clientVars, ownerVars, printer, inbox>>

Others == IF Neighbour THEN {"other"} ELSE {}
Kinds == {"PunchPkt", "P2pRdy", "Alive", "Close"}
Packet(from, kind) == [from |-> from, kind |-> kind]

Datagrams == {Packet("own", k) : k \in Kinds} \cup {Packet("other", "PunchPkt")}

Init ==
    /\ state = "idle" /\ run = "none" /\ ctx = FALSE /\ open = FALSE /\ known = FALSE
    /\ addr = "all" /\ pong = "none"
    /\ user = "out" /\ asProbe = FALSE /\ connected = FALSE /\ persisted = "none"
    /\ printer = "idle" /\ inbox = {}

Reaches(to, whom) == to \in {"all", whom}

\* What the network makes of answers: each of them is on its way or lost.
Arrive(answers) ==
    \E kept \in SUBSET answers :
        /\ Cardinality(inbox \cup kept) <= MaxInFlight
        /\ inbox' = inbox \cup kept

\* The printers that a LAN search sent to `to` reaches and that answer it.
PunchPkts(to) ==
    {Packet(p, "PunchPkt") : p \in {q \in Others \cup {"own"} :
                                       /\ Reaches(to, q)
                                       /\ q = "own" => printer # "gone"}}

\* A printer whose address is known is searched for at that address and by
\* broadcasts; else at the client's remote address as it is at the time.
HandshakeAddresses == {"own", "all"}
SearchAddr == IF known THEN HandshakeAddresses ELSE {addr}

---------------------------------------------------------------------------
(* The owner: WorkerStart, WorkerRun and WorkerStop of PPPPService, or the  *)
(* probe, which runs while the service is stopped.                          *)

\* A client with a socket of its own.
OpenBroadcastLAN == open' = TRUE /\ addr' = "all" /\ pong' = "none" /\ run' = "none"

\* The factory opens a client and sends a search.
Factory ==
    /\ known' \in BOOLEAN /\ OpenBroadcastLAN /\ state' = "connecting"
    /\ Arrive(PunchPkts("all"))

Begin(probing) ==
    /\ user = "out" /\ Factory
    /\ user' = "started" /\ asProbe' = probing /\ ctx' = TRUE
    /\ connected' = FALSE /\ persisted' = "none"
    /\ UNCHANGED printer

WorkerStart == Begin(FALSE)
ProbePPPP == Begin(TRUE)

\* WorkerRun starts Run on a goroutine, and watches it.
WorkerRun ==
    /\ user = "started"
    /\ user' = "watch" /\ run' = "spawned"
    /\ UNCHANGED <<state, ctx, open, known, addr, pong, asProbe, connected, persisted, printer, inbox>>

(* Mutant of Healthy: connected by name only. *)
Nominal == state = "connected"
Healthy == state = "connected" /\ pong = "fresh"

Leave == user' = "stop" /\ UNCHANGED <<clientVars, asProbe, connected, persisted, printer, inbox>>

EndContext ==
    /\ user = "watch" /\ ctx
    /\ ctx' = FALSE
    /\ UNCHANGED <<state, run, open, known, addr, pong, ownerVars, printer, inbox>>

\* Stop, Restart or Shutdown of the service ends its run context.
Cancel == ~asProbe /\ EndContext

\* The probe's context ends after five seconds.
ProbeTimeout == asProbe /\ inbox = {} /\ run = "select" /\ EndContext

Cancelled == user = "watch" /\ ~ctx /\ Leave
RunReturned == user = "watch" /\ run = "ended" /\ Leave
ConnectionLost == user = "watch" /\ ~asProbe /\ state # "connected" /\ connected /\ Leave

\* Ten seconds without a handshake.  They are longer than a datagram's delay
\* and than a reading.
ConnectTimeout ==
    /\ user = "watch" /\ ~asProbe /\ state # "connected" /\ ~connected
    /\ inbox = {} /\ run = "select"
    /\ Leave

Stale == user = "watch" /\ ~asProbe /\ state = "connected" /\ ~Healthy /\ Leave

\* The remote address of the first healthy look is saved, unless it is a
\* broadcast address.
Persist ==
    /\ user = "watch" /\ ~asProbe /\ Healthy
    /\ ~connected
    /\ connected' = TRUE
    /\ persisted' = IF addr = "all" THEN persisted ELSE addr
    /\ UNCHANGED <<clientVars, user, asProbe, printer, inbox>>

\* A frame that cannot be parsed ends the session.
DrainFails == user = "watch" /\ ~asProbe /\ Healthy /\ connected /\ Leave

\* The probe has its answer.
ProbeConnected == user = "watch" /\ asProbe /\ state = "connected" /\ Leave

\* stopWorker cancels the run context before it calls WorkerStop; the probe
\* cancels its own after the Close.
(* Mutant of CancelFirst. *)
CloseFirst == ctx' = ctx
CancelFirst == ctx' = IF asProbe THEN ctx ELSE FALSE
StopWorker ==
    /\ user = "stop"
    /\ user' = "close"
    /\ CancelFirst
    /\ UNCHANGED <<state, run, open, known, addr, pong, asProbe, connected, persisted, printer, inbox>>

Close ==
    /\ user = "close"
    /\ state' = "disconnected" /\ user' = "wait"
    /\ UNCHANGED <<run, ctx, open, known, addr, pong, asProbe, connected, persisted, printer, inbox>>

\* wg.Wait returns at once when Run has not yet added itself.
Closed ==
    /\ user = "wait"
    /\ run \in {"none", "spawned", "ended"}
    /\ open' = FALSE /\ ctx' = FALSE /\ user' = "out" /\ inbox' = {}
    /\ UNCHANGED <<state, run, known, addr, pong, asProbe, connected, persisted, printer>>

---------------------------------------------------------------------------
(* The goroutine of Run.                                                    *)

OnlyRun == UNCHANGED <<ctx, open, known, ownerVars>>

RunEnter ==
    /\ run = "spawned"
    /\ run' = "select"
    /\ state' = IF state = "idle" THEN "connecting" ELSE state
    /\ UNCHANGED <<addr, pong, printer, inbox>> /\ OnlyRun

\* The deferred calls of Run: a Close to the peer, which may be lost.
Exit ==
    /\ run' = "ended" /\ state' = "disconnected"
    /\ \/ printer' = IF open /\ addr = "own" /\ printer = "session" THEN "idle" ELSE printer
       \/ UNCHANGED printer
    /\ UNCHANGED <<addr, pong, inbox>> /\ OnlyRun

RunCancelled == run = "select" /\ ~ctx /\ Exit
RunReset == run = "select" /\ state = "disconnected" /\ Exit

Tick ==
    /\ run = "select" /\ state # "disconnected"
    /\ run' = "read"
    /\ UNCHANGED <<state, addr, pong, printer, inbox>> /\ OnlyRun

\* A search that is due goes out before the reading.
SearchAgain ==
    /\ run = "select" /\ state = "connecting"
    /\ run' = "read"
    /\ \E to \in SearchAddr : Arrive(PunchPkts(to))
    /\ UNCHANGED <<state, addr, pong, printer>> /\ OnlyRun

\* Nothing more to read: channels are polled, and a keepalive that is due asks
\* a listening printer for a sign of life.
ReadDone ==
    /\ run = "read" /\ inbox = {}
    /\ run' = "select"
    /\ \/ UNCHANGED inbox
       \/ /\ state = "connected" /\ addr = "own" /\ printer = "session"
          /\ Arrive({Packet("own", "Alive")})
    /\ UNCHANGED <<state, addr, pong, printer>> /\ OnlyRun

\* Every datagram moves the remote address to where it came from, whatever
\* becomes of it.
Recv(p) ==
    /\ run = "read" /\ open /\ p \in inbox
    /\ addr' = p.from

\* Step 2 of the handshake: a Close for the printer's old session, then
\* P2pRdy.  Only the printer with the right DUID is answered.
RecvPunchPkt(p) ==
    /\ Recv(p) /\ p.kind = "PunchPkt"
    /\ inbox' = inbox \ {p}
    /\ \/ UNCHANGED printer
       \/ /\ state = "connecting" /\ p.from = "own" /\ printer # "gone"
          /\ printer' \in {"idle", "session"}
    /\ UNCHANGED <<state, run, pong>> /\ OnlyRun

\* Step 4.  The state is looked at here and stored in Connect.
RecvP2pRdy(p) ==
    /\ Recv(p) /\ p.kind = "P2pRdy"
    /\ inbox' = inbox \ {p}
    /\ IF state = "connecting" THEN run' = "ready" /\ pong' = "fresh"
                               ELSE UNCHANGED <<run, pong>>
    /\ UNCHANGED <<state, printer>> /\ OnlyRun

Connect ==
    /\ run = "ready"
    /\ state' = "connected" /\ run' = "read"
    /\ UNCHANGED <<addr, pong, printer, inbox>> /\ OnlyRun

\* PingReq, Hello and PingResp: the session is alive.
RecvAlive(p) ==
    /\ Recv(p) /\ p.kind = "Alive"
    /\ inbox' = inbox \ {p}
    /\ pong' = "fresh"
    /\ UNCHANGED <<state, run, printer>> /\ OnlyRun

RecvClose(p) ==
    /\ Recv(p) /\ p.kind = "Close"
    /\ inbox' = inbox \ {p}
    /\ state' = "disconnected"
    /\ UNCHANGED <<run, pong, printer>> /\ OnlyRun

\* Fifteen seconds since the last pong.
Age ==
    /\ pong = "fresh" /\ run # "ready"
    /\ Packet("own", "Alive") \notin inbox
    /\ pong' = "stale"
    /\ UNCHANGED <<state, run, ctx, open, known, addr, ownerVars, printer, inbox>>

---------------------------------------------------------------------------
(* The own printer.                                                         *)

\* In a session it repeats P2pRdy, pings, or ends the session.  What arrives
\* during a reading counts for the next tick.
PrinterSends(k) ==
    /\ printer = "session" /\ open /\ run # "read"
    /\ Cardinality(inbox \cup {Packet("own", k)}) <= MaxInFlight
    /\ inbox' = inbox \cup {Packet("own", k)}
    /\ printer' = IF k = "Close" THEN "idle" ELSE printer
    /\ UNCHANGED <<clientVars, ownerVars>>

PrinterReady == PrinterSends("P2pRdy")
PrinterPings == PrinterSends("Alive")
PrinterCloses == PrinterSends("Close")

\* Its Wi-Fi sleeps, or it is switched off; it says nothing about it.
PrinterGone ==
    /\ printer # "gone"
    /\ printer' = "gone"
    /\ UNCHANGED <<clientVars, ownerVars, inbox>>

PrinterBack ==
    /\ printer = "gone"
    /\ printer' = "idle"
    /\ UNCHANGED <<clientVars, ownerVars, inbox>>

Owner ==
    \/ WorkerStart \/ ProbePPPP \/ WorkerRun \/ Cancelled \/ RunReturned \/ ConnectionLost
    \/ ProbeTimeout \/ ConnectTimeout \/ Stale \/ Persist \/ ProbeConnected
    \/ StopWorker \/ Close \/ Closed

Receive(p) == RecvPunchPkt(p) \/ RecvP2pRdy(p) \/ RecvAlive(p) \/ RecvClose(p)

RunStep ==
    \/ RunEnter \/ RunCancelled \/ RunReset \/ Tick \/ SearchAgain
    \/ ReadDone \/ Connect
    \/ \E p \in Datagrams : Receive(p)

Next ==
    \/ Owner \/ RunStep
    \/ Cancel \/ DrainFails \/ Age
    \/ PrinterReady \/ PrinterPings \/ PrinterCloses \/ PrinterGone \/ PrinterBack

\* The two goroutines are scheduled and deadlines pass; select does not
\* overlook an ended context for ever.
Fairness ==
    /\ SF_vars(Owner) /\ WF_vars(RunStep) /\ WF_vars(Age)
    /\ SF_vars(RunCancelled)

Spec == Init /\ [][Next]_vars /\ Fairness

---------------------------------------------------------------------------
(* Properties.                                                              *)

\* Close waits for Run, which may at that moment be storing "connected" over
\* the "disconnected" Close has just stored (client.go:555 looks, 560 stores).
\* It must return nevertheless.
CloseReturns == (user = "wait") ~> (user = "out")

\* A printer that falls silent without a Close does not keep a session
\* connected for ever (pppp.go:845: "the printer's Wi-Fi power saving has
\* silently dropped the session").
SilentSessionEnds ==
    (state = "connected" /\ printer = "gone") ~> (state # "connected" \/ printer # "gone")

====
