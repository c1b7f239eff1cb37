----------------------------- MODULE WebSockets -----------------------------
(***************************************************************************)
(* The connection manager behind /ws/tasks: who is connected for a user    *)
(* and who is subscribed to a channel.  All of it runs on one event loop,  *)
(* so that a step here is what runs between two awaits: endpoints come and *)
(* go while a broadcast waits for each of its sends.                       *)
(***************************************************************************)
EXTENDS Naturals, FiniteSets

CONSTANTS
    Sockets,      \* WebSocket connections, each opened once
    Users, Channels,
    Senders,      \* broadcasts that may be under way at a time
    MaxSends      \* bound: broadcasts in all

Topics == Users \union Channels
Nobody == "nobody"

VARIABLES
    sock,         \* sock[w]: new, open, broken (the peer is gone) or closed
    user,         \* user[w] the connection is for
    keys,         \* keys of _connections and _channel_subscribers
    members,      \* members[t]: the set under key t
    sender,       \* sender[b]: a broadcast, with the copy it is working through
    wanted,       \* history: what each socket is subscribed to by its own requests
    sends

vars == <<sock, user, keys, members, sender, wanted, sends>>

Working(pc, t, todo, left) == [pc |-> pc, topic |-> t, todo |-> todo, left |-> left, dead |-> {}]
Idle == Working("idle", Nobody, {}, {})

Init ==
    /\ sock = [w \in Sockets |-> "new"]
    /\ user = [w \in Sockets |-> Nobody]
    /\ keys = {} /\ members = [t \in Topics |-> {}]
    /\ sender = [b \in Senders |-> Idle]
    /\ wanted = [w \in Sockets |-> {}]
    /\ sends = 0

-----------------------------------------------------------------------------
\* A key goes with the last socket under it; a broadcast to all that has the
\* set of a user before it will find it empty.
SetMembers(new, cleaned) ==
    LET gone == {t \in cleaned : new[t] = {}} IN
    /\ members' = new
    /\ keys' = keys \ gone
    /\ sender' = [b \in Senders |-> [sender[b] EXCEPT !.todo = @ \ gone]]

(* The endpoint of a socket.                                               *)
Connect(w, u) ==
    /\ sock[w] = "new"
    /\ sock' = [sock EXCEPT ![w] = "open"]
    /\ user' = [user EXCEPT ![w] = u]
    /\ keys' = keys \union {u}
    /\ members' = [members EXCEPT ![u] = @ \union {w}]
    /\ UNCHANGED <<sender, wanted, sends>>

\* A request that was sent before the peer went may still be read after it.
Subscribe(w, c) ==
    /\ sock[w] \in {"open", "broken"}
    /\ keys' = keys \union {c}
    /\ members' = [members EXCEPT ![c] = @ \union {w}]
    /\ wanted' = [wanted EXCEPT ![w] = @ \union {c}]
    /\ UNCHANGED <<sock, user, sender, sends>>

Unsubscribe(w, c) ==
    /\ sock[w] \in {"open", "broken"} /\ c \in keys
    /\ SetMembers([members EXCEPT ![c] = @ \ {w}], {c})
    /\ wanted' = [wanted EXCEPT ![w] = @ \ {c}]
    /\ UNCHANGED <<sock, user, sends>>

PeerGone(w) ==
    /\ sock[w] = "open"
    /\ sock' = [sock EXCEPT ![w] = "broken"]
    /\ UNCHANGED <<user, keys, members, sender, wanted, sends>>

\* unsubscribe_all goes through every channel.
Left(w) == [t \in Topics |-> IF t = user[w] \/ t \in Channels THEN members[t] \ {w} ELSE members[t]]

\* A disconnect or any error ends the endpoint.
Disconnect(w) ==
    /\ sock[w] \in {"open", "broken"}
    /\ sock' = [sock EXCEPT ![w] = "closed"]
    /\ SetMembers(Left(w), {user[w]} \union Channels)
    /\ wanted' = [wanted EXCEPT ![w] = {}]
    /\ UNCHANGED <<user, sends>>

-----------------------------------------------------------------------------
(* Broadcasts.                                                             *)
Start(b, record) ==
    /\ sender[b].pc = "idle" /\ sends < MaxSends
    /\ sender' = [sender EXCEPT ![b] = record]
    /\ sends' = sends + 1
    /\ UNCHANGED <<sock, user, keys, members, wanted>>

\* A metrics loop asks Proxmox only for channels somebody listens to.
PollMetrics(b, c) ==
    /\ members[c] # {}
    /\ Start(b, Working("fetch", c, {}, {}))

\* broadcast_to_channel copies what is there when the answer has come.
BroadcastToChannel(b) ==
    /\ sender[b].pc = "fetch"
    /\ LET c == sender[b].topic IN
       sender' = [sender EXCEPT ![b] = IF members[c] = {} THEN Idle
                                       ELSE Working("send", c, {}, members[c])]
    /\ UNCHANGED <<sock, user, keys, members, wanted, sends>>

SendToUser(b, u) ==
    /\ members[u] # {}
    /\ Start(b, Working("send", u, {}, members[u]))

Broadcast(b) ==
    /\ keys \intersect Users # {}
    /\ Start(b, Working("users", Nobody, keys \intersect Users, {}))

\* The sockets of a user are copied when it is the user's turn.
NextUser(b, u) ==
    /\ sender[b].pc = "users" /\ sender[b].left = {} /\ u \in sender[b].todo
    /\ sender' = [sender EXCEPT ![b].todo = @ \ {u}, ![b].left = members[u]]
    /\ UNCHANGED <<sock, user, keys, members, wanted, sends>>

\* One awaited send; a socket that cannot be written to is remembered.
SendOne(b, w) ==
    /\ w \in sender[b].left
    /\ sender' = [sender EXCEPT ![b].left = @ \ {w},
                                ![b].dead = IF sock[w] = "open" THEN @ ELSE @ \union {w}]
    /\ UNCHANGED <<sock, user, keys, members, wanted, sends>>

\* Mutant: what the broadcast copied and found alive is written back.
MutCleanTopic(b) ==
    /\ sender[b].pc = "send" /\ sender[b].left = {}
    /\ LET t == sender[b].topic
           new == [members EXCEPT ![t] = IF sender[b].dead = {} THEN @ ELSE {}] IN
       /\ members' = new
       /\ keys' = keys \ {s \in {t} : new[s] = {}}
       /\ sender' = [sender EXCEPT ![b] = Idle]
    /\ UNCHANGED <<sock, user, wanted, sends>>

\* The dead sockets are taken out.  When the key is gone by then this is a
\* KeyError, which ends the broadcast and leaves the rest as it is.
CleanTopic(b) ==
    /\ sender[b].pc = "send" /\ sender[b].left = {}
    /\ LET t == sender[b].topic
           new == [members EXCEPT ![t] = @ \ sender[b].dead]
           gone == IF new[t] = {} THEN {t} ELSE {} IN
       IF sender[b].dead # {} /\ t \notin keys
       THEN sender' = [sender EXCEPT ![b] = Idle] /\ UNCHANGED <<keys, members>>
       ELSE /\ members' = new
            /\ keys' = keys \ gone
            /\ sender' = [a \in Senders |-> IF a = b THEN Idle ELSE [sender[a] EXCEPT !.todo = @ \ gone]]
    /\ UNCHANGED <<sock, user, wanted, sends>>

\* After a broadcast to all an empty set may stay under the key of its user.
CleanUsers(b) ==
    /\ sender[b].pc = "users" /\ sender[b].left = {} /\ sender[b].todo = {}
    /\ members' = [t \in Topics |-> IF t \in Users THEN members[t] \ {w \in sender[b].dead : user[w] = t}
                                    ELSE members[t]]
    /\ sender' = [sender EXCEPT ![b] = Idle]
    /\ UNCHANGED <<sock, user, keys, wanted, sends>>

SenderStep(b) ==
    \/ BroadcastToChannel(b) \/ CleanTopic(b) \/ CleanUsers(b)
    \/ \E u \in Users : NextUser(b, u)
    \/ \E w \in Sockets : SendOne(b, w)

Next ==
    \/ \E w \in Sockets :
          \/ \E u \in Users : Connect(w, u)
          \/ \E c \in Channels : Subscribe(w, c) \/ Unsubscribe(w, c)
          \/ PeerGone(w) \/ Disconnect(w)
    \/ \E b \in Senders :
          \/ \E c \in Channels : PollMetrics(b, c)
          \/ \E u \in Users : SendToUser(b, u)
          \/ Broadcast(b) \/ SenderStep(b)

Spec == Init /\ [][Next]_vars

-----------------------------------------------------------------------------
TypeOK ==
    /\ sock \in [Sockets -> {"new", "open", "broken", "closed"}]
    /\ keys \subseteq Topics /\ members \in [Topics -> SUBSET Sockets]
    /\ \A b \in Senders : sender[b].left \subseteq Sockets /\ sender[b].dead \subseteq Sockets
    /\ sends \in 0..MaxSends

\* A socket whose endpoint has ended is under no key, and no key is left to
\* sets nobody is in by an endpoint that has ended, whatever broadcasts were
\* under way: the manager does not grow with the connections it has had.
ClosedForgotten ==
    /\ \A w \in Sockets, t \in Topics : w \in members[t] => t \in keys /\ sock[w] \in {"open", "broken"}
    /\ (\A w \in Sockets : sock[w] \in {"new", "closed"}) => keys = {}

\* The cleaning up after a broadcast takes nobody's place who is alive: a
\* socket that can be written to is where it connected and subscribed, also
\* when it came while the sends of a broadcast were awaited.
LiveKeepTheirPlace ==
    \A w \in Sockets : sock[w] = "open" =>
        \A t \in wanted[w] \union {user[w]} : w \in members[t]
=============================================================================
