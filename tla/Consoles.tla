------------------------------ MODULE Consoles ------------------------------
(***************************************************************************)
(* Consoles of guests and nodes: a WebSocket of a browser is bridged to    *)
(* one of Proxmox.  Every handler runs on the one event loop, holds a      *)
(* connection of the database pool for as long as it lives, and relays in  *)
(* two tasks of which the first to end ends the console.                   *)
(***************************************************************************)
EXTENDS Naturals, Sequences, FiniteSets

CONSTANTS
    Consoles,    \* connections of browsers, each used once
    PoolSize,    \* connections of the database pool
    MaxPrints,   \* bound: pieces of output of a guest
    MaxEvents    \* bound: proxies that stop answering, jobs that need the database

Nobody == "nobody"

VARIABLES
    con,         \* con[c]: the handler: its stage, its relay tasks, what it holds and has received
    browser,     \* browser[c]: the panel's side: none, open or gone
    far,         \* far[c]: Proxmox's side: none, listening, open, ended, or dead: it no longer answers
    printed,     \* printed[c]: pieces of output the guest has written
    shown,       \* shown[c]: the pieces of output the browser was sent
    jobs,        \* database connections that background jobs hold
    blocked,     \* the handler that holds up the event loop, if any
    events

vars == <<con, browser, far, printed, shown, jobs, blocked, events>>

\* The awaits of the handlers, in order.  The ticket of a VNC console comes
\* from a request before it (Ticket).
VncStages == <<"authorise", "find", "connect", "relay">>
TerminalStages == <<"authorise", "find", "login", "proxy", "connect", "handshake", "relay">>
SerialStages == <<"authorise", "find", "login", "proxy", "connect", "handshake", "relay">>
NodeShellStages == <<"authorise", "find", "password", "login", "proxy", "connect", "handshake", "relay">>
Stages == [vnc |-> VncStages, terminal |-> TerminalStages,
           serial |-> SerialStages, node |-> NodeShellStages]

NoConsole == [st |-> "none", kind |-> "vnc", at |-> 1, up |-> FALSE, down |-> FALSE,
              db |-> FALSE, got |-> 0]

Init ==
    /\ con = [c \in Consoles |-> NoConsole]
    /\ browser = [c \in Consoles |-> "none"]
    /\ far = [c \in Consoles |-> "none"]
    /\ printed = [c \in Consoles |-> 0]
    /\ shown = [c \in Consoles |-> <<>>]
    /\ jobs = 0 /\ blocked = Nobody /\ events = 0

-----------------------------------------------------------------------------
PoolFull == Cardinality({c \in Consoles : con[c].db}) + jobs >= PoolSize
At(c, stage) == blocked = Nobody /\ con[c].st = "on" /\ Stages[con[c].kind][con[c].at] = stage
Set(c, changes) == con' = [con EXCEPT ![c] = changes]
Next1(c) == [con[c] EXCEPT !.at = @ + 1]
Over(c) == Set(c, [con[c] EXCEPT !.st = "over", !.db = FALSE])
Gone(c) == browser' = [browser EXCEPT ![c] = "gone"]
Event == events < MaxEvents /\ events' = events + 1

(* The opening of a console.                                               *)
\* A request logs in to Proxmox and has it listen for a console.
Ticket(c) ==
    /\ con[c].st = "none" /\ far[c] = "none"
    /\ far' = [far EXCEPT ![c] = "listening"]
    /\ Set(c, [con[c] EXCEPT !.st = "ticket"])
    /\ UNCHANGED <<browser, printed, shown, jobs, blocked, events>>

Open(c) ==
    /\ blocked = Nobody
    /\ \E k \in DOMAIN Stages :
          /\ con[c].st = IF k = "vnc" THEN "ticket" ELSE "none"
          /\ Set(c, [con[c] EXCEPT !.st = "on", !.kind = k])
    /\ browser' = [browser EXCEPT ![c] = "open"]
    /\ UNCHANGED <<far, printed, shown, jobs, blocked, events>>

\* The user, the permission and the guest are looked up on the event loop, in
\* a session that is given back when the handler ends: with an empty pool the
\* loop stands still.
Authorise(c) ==
    /\ At(c, "authorise")
    /\ \/ ~PoolFull /\ Set(c, [Next1(c) EXCEPT !.db = TRUE]) /\ UNCHANGED <<browser, blocked>>
       \/ ~PoolFull /\ Over(c) /\ Gone(c) /\ UNCHANGED blocked
       \/ PoolFull /\ blocked' = c /\ UNCHANGED <<con, browser>>
    /\ UNCHANGED <<far, printed, shown, jobs, events>>

\* The pool gives the loop a connection, or up after its timeout.
Unblock(c) ==
    /\ blocked = c
    /\ \/ ~PoolFull /\ UNCHANGED <<con, browser>>
       \/ PoolFull /\ Over(c) /\ Gone(c)
    /\ blocked' = Nobody
    /\ UNCHANGED <<far, printed, shown, jobs, events>>

\* Without the server's row, or without credentials, the handler returns.
Find(c) ==
    /\ At(c, "find")
    /\ \/ Set(c, Next1(c)) /\ UNCHANGED browser
       \/ Over(c) /\ Gone(c)
    /\ UNCHANGED <<far, printed, shown, jobs, blocked, events>>

\* The browser sends a password first; what it sent before waits for it.
AskPassword(c) ==
    /\ At(c, "password") /\ browser[c] = "open"
    /\ Set(c, Next1(c))
    /\ UNCHANGED <<browser, far, printed, shown, jobs, blocked, events>>

LogIn(c) ==
    /\ At(c, "login")
    /\ Set(c, Next1(c))
    /\ UNCHANGED <<browser, far, printed, shown, jobs, blocked, events>>

OpenProxy(c) ==
    /\ At(c, "proxy")
    /\ Set(c, Next1(c)) /\ far' = [far EXCEPT ![c] = "listening"]
    /\ UNCHANGED <<browser, printed, shown, jobs, blocked, events>>

\* A VNC console relays at once.
Connect(c) ==
    /\ At(c, "connect") /\ far[c] = "listening"
    /\ far' = [far EXCEPT ![c] = "open"]
    /\ LET vnc == con[c].kind = "vnc" IN Set(c, [Next1(c) EXCEPT !.up = vnc, !.down = vnc])
    /\ UNCHANGED <<browser, printed, shown, jobs, blocked, events>>

\* Mutant: what came with the answer OK is dropped.
MutHandshake(c) ==
    /\ At(c, "handshake") /\ far[c] \in {"open", "ended"}
    /\ \E n \in 0..printed[c] : Set(c, [Next1(c) EXCEPT !.up = TRUE, !.down = TRUE, !.got = n])
    /\ UNCHANGED <<browser, far, printed, shown, jobs, blocked, events>>

\* The first message of the proxy is OK with what the guest has written so far.
Handshake(c) ==
    /\ At(c, "handshake") /\ far[c] \in {"open", "ended"}
    /\ \E n \in 0..printed[c] :
          /\ Set(c, [Next1(c) EXCEPT !.up = TRUE, !.down = TRUE, !.got = n])
          /\ shown' = [shown EXCEPT ![c] = [i \in 1..n |-> i]]
    /\ UNCHANGED <<browser, far, printed, jobs, blocked, events>>

\* A refused login, a missing password, an error or a timeout on the way.
Fail(c) ==
    /\ \E stage \in {"password", "login", "proxy", "connect", "handshake"} : At(c, stage)
    /\ Set(c, [con[c] EXCEPT !.st = "closing"]) /\ Gone(c)
    /\ UNCHANGED <<far, printed, shown, jobs, blocked, events>>

(* The relay.                                                              *)
\* Towards Proxmox: until the browser is gone or a send fails.
UpEnds(c) ==
    /\ At(c, "relay") /\ con[c].up
    /\ browser[c] = "gone" \/ far[c] = "ended"
    /\ Set(c, [con[c] EXCEPT !.up = FALSE])
    /\ UNCHANGED <<browser, far, printed, shown, jobs, blocked, events>>

\* Towards the browser: what has arrived, until Proxmox has closed or a send
\* fails.  A proxy that is dead sends nothing and is not asked.
Down(c) ==
    /\ At(c, "relay") /\ con[c].down /\ far[c] \in {"open", "ended"}
    /\ LET more == con[c].got < printed[c] IN
       IF more /\ browser[c] = "open"
       THEN /\ Set(c, [con[c] EXCEPT !.got = @ + 1])
            /\ shown' = [shown EXCEPT ![c] = Append(@, con[c].got + 1)]
       ELSE /\ more \/ far[c] = "ended"
            /\ Set(c, [con[c] EXCEPT !.down = FALSE])
            /\ UNCHANGED shown
    /\ UNCHANGED <<browser, far, printed, jobs, blocked, events>>

\* Mutant: the console waits for both directions to end.
MutRelayEnds(c) ==
    /\ At(c, "relay") /\ ~con[c].up /\ ~con[c].down
    /\ Set(c, [con[c] EXCEPT !.st = "closing"])
    /\ UNCHANGED <<browser, far, printed, shown, jobs, blocked, events>>

\* The first direction to end cancels the other.
RelayEnds(c) ==
    /\ At(c, "relay") /\ ~(con[c].up /\ con[c].down)
    /\ Set(c, [con[c] EXCEPT !.st = "closing", !.up = FALSE, !.down = FALSE])
    /\ UNCHANGED <<browser, far, printed, shown, jobs, blocked, events>>

\* Proxmox's side is closed first, for a dead one after five seconds.
CloseFar(c) ==
    /\ blocked = Nobody /\ con[c].st = "closing"
    /\ far' = [far EXCEPT ![c] = "none"]
    /\ Set(c, [con[c] EXCEPT !.st = "closed"])
    /\ UNCHANGED <<browser, printed, shown, jobs, blocked, events>>

\* The session, and with it the database connection, goes with the handler.
CloseBrowser(c) ==
    /\ blocked = Nobody /\ con[c].st = "closed"
    /\ Over(c) /\ Gone(c)
    /\ UNCHANGED <<far, printed, shown, jobs, blocked, events>>

HandlerStep(c) ==
    \/ Authorise(c) \/ Unblock(c) \/ Find(c) \/ AskPassword(c) \/ LogIn(c) \/ OpenProxy(c)
    \/ Connect(c) \/ Handshake(c) \/ Fail(c)
    \/ UpEnds(c) \/ Down(c) \/ RelayEnds(c) \/ CloseFar(c) \/ CloseBrowser(c)

-----------------------------------------------------------------------------
(* Browsers, Proxmox, and the jobs that use the same pool.                 *)
BrowserLeaves(c) ==
    /\ browser[c] = "open" /\ Gone(c)
    /\ UNCHANGED <<con, far, printed, shown, jobs, blocked, events>>

GuestPrints(c) ==
    /\ far[c] = "open" /\ printed[c] < MaxPrints
    /\ printed' = [printed EXCEPT ![c] = @ + 1]
    /\ UNCHANGED <<con, browser, far, shown, jobs, blocked, events>>

\* Nobody connects to the proxy within ten seconds; the guest or Proxmox
\* closes the console; the way to Proxmox is lost.
FarChanges(c) ==
    /\ \/ far[c] = "listening" /\ far' = [far EXCEPT ![c] = "none"] /\ UNCHANGED events
       \/ far[c] = "open" /\ far' = [far EXCEPT ![c] = "ended"] /\ UNCHANGED events
       \/ far[c] = "open" /\ far' = [far EXCEPT ![c] = "dead"] /\ Event
    /\ UNCHANGED <<con, browser, printed, shown, jobs, blocked>>

JobStarts ==
    /\ ~PoolFull /\ Event /\ jobs' = jobs + 1
    /\ UNCHANGED <<con, browser, far, printed, shown, blocked>>

JobEnds ==
    /\ jobs > 0 /\ jobs' = jobs - 1
    /\ UNCHANGED <<con, browser, far, printed, shown, blocked, events>>

Next ==
    \/ \E c \in Consoles : \/ Ticket(c) \/ Open(c) \/ HandlerStep(c)
                           \/ BrowserLeaves(c) \/ GuestPrints(c) \/ FarChanges(c)
    \/ JobStarts \/ JobEnds

Spec == Init /\ [][Next]_vars

-----------------------------------------------------------------------------
TypeOK ==
    /\ con \in [Consoles -> [st : {"none", "ticket", "on", "closing", "closed", "over"},
                             kind : DOMAIN Stages, at : 1..8, up : BOOLEAN, down : BOOLEAN,
                             db : BOOLEAN, got : 0..MaxPrints]]
    /\ browser \in [Consoles -> {"none", "open", "gone"}]
    /\ far \in [Consoles -> {"none", "listening", "open", "ended", "dead"}]
    /\ printed \in [Consoles -> 0..MaxPrints]
    /\ shown \in [Consoles -> Seq(1..MaxPrints)]
    /\ jobs \in 0..PoolSize /\ blocked \in Consoles \union {Nobody} /\ events \in 0..MaxEvents

\* However a handler ends, nothing of its console stays behind: neither side
\* is open and the database connection is back in the pool.
BothSidesClosed ==
    \A c \in Consoles : con[c].st = "over" =>
        browser[c] # "open" /\ far[c] \in {"none", "listening"} /\ ~con[c].db

\* The browser is shown what the guest has written, in order and without a
\* gap, from the first piece on: also what comes with the handshake.
OutputInOrder == \A c \in Consoles : \A i \in DOMAIN shown[c] : shown[c][i] = i

\* A console whose browser is gone ends, though Proxmox may never say a word
\* again and though the pool may be empty when another console is opened.
ConsolesReleased ==
    \A c \in Consoles : (browser[c] = "gone" /\ con[c].st # "over") ~> con[c].st = "over"
=============================================================================
