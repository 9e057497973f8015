------------------------------ MODULE LiveEvents ------------------------------
(***************************************************************************)
(* The live event stream of one API process: sockets that authenticate     *)
(* with an API key, the hub that groups them by workspace, their heartbeat  *)
(* and revalidation, and the reader that broadcasts the event stream.       *)
(*                                                                         *)
(* A lookup of a key and the callback that takes its result are one step:   *)
(* a key that ends between the two might as well have ended after both.     *)
(***************************************************************************)
EXTENDS ApiKeys, Sequences, FiniteSets

CONSTANTS
  Sockets, Workspaces, Keys,
  WorkspaceOf,       \* [Keys -> Workspaces]
  BodyOf,            \* [Keys -> Bodies], what each key is created with
  Existing,          \* the keys created before the process began
  AddressOf,         \* [Sockets -> Addresses]
  NoKey,             \* of a socket that is not in use
  MaxPending,        \* WS_MAX_PENDING_AUTH
  MaxPerWorkspace,   \* WS_MAX_PER_WORKSPACE
  Dollar,            \* '$': only what is added after the call
  MaxEvents, MaxFaults
                     \* bounds: events; reads that fail, clients that vanish, deaths

ASSUME LiveAssumption ==
  /\ IsFiniteSet(Sockets)
  /\ WorkspaceOf \in [Keys -> Workspaces] /\ NoKey \notin Keys
  /\ BodyOf \in [Keys -> Bodies] /\ Existing \subseteq Keys
  /\ AddressOf \in [Sockets -> Addresses]
  /\ MaxPending \in Nat /\ MaxPerWorkspace \in Nat /\ Dollar \notin Nat
  /\ MaxEvents \in Nat /\ MaxFaults \in Nat

VARIABLES
  keys,         \* api_keys
  conn,         \* the sockets
  pendingAuth,  \* pendingAuth
  hub,          \* byWorkspace
  stream,       \* the workspaces of the events published
  reader,       \* the broadcaster: its place, lastId, and where its read starts
  sent,         \* history: the events sent to each socket
  joined,       \* history: the last event read before a socket joined the hub
  early,        \* history: the sockets closed while their key was looked up
  base,         \* history: the event before the first that the broadcaster read
  faults

vars == <<keys, conn, pendingAuth, hub, stream, reader, sent, joined, early, base, faults>>

\* A socket: its connection, and its place: new, pending (its key is looked up), late
\* (the lookup has not ended although the socket was given up), rejected, in the hub.
Unused == [net |-> "closed", phase |-> "new", key |-> NoKey, alive |-> FALSE, timers |-> FALSE]

\* Nothing refers to the socket any more.
Dead   == [Unused EXCEPT !.phase = "rejected"]

Positions == 0..MaxEvents
Start == [at |-> "next", last |-> Dollar, from |-> 0]

Init ==
  /\ keys = [k \in Keys |-> IF k \in Existing THEN create(BodyOf[k]) ELSE NotCreated]
  /\ conn = [s \in Sockets |-> Unused]
  /\ pendingAuth = 0
  /\ hub = [w \in Workspaces |-> {}]
  /\ stream = <<>> /\ reader = Start
  /\ sent = [s \in Sockets |-> <<>>]
  /\ joined = [s \in Sockets |-> 0] /\ early = {} /\ base = 0
  /\ faults = 0

history == <<joined, early>>

Fault == faults < MaxFaults /\ faults' = faults + 1

-----------------------------------------------------------------------------
(* Admission: the handler of /ws.                                          *)

events == <<stream, reader, sent, base>>

Becomes(s, c) == conn' = [conn EXCEPT ![s] = c]

\* reject: send and close; terminate follows after the grace period.
Rejected(s) ==
  IF conn[s].net = "closed" THEN Dead ELSE [Dead EXCEPT !.net = "closing"]

Connect(s, k) ==
  LET fresh == [Unused EXCEPT !.net = "open", !.key = k] IN
  /\ conn[s] = Unused
  /\ IF pendingAuth >= MaxPending
     THEN /\ Becomes(s, [fresh EXCEPT !.net = "closing", !.phase = "rejected"])
          /\ UNCHANGED pendingAuth
     ELSE /\ Becomes(s, [fresh EXCEPT !.phase = "pending"])
          /\ pendingAuth' = pendingAuth + 1
  /\ UNCHANGED <<keys, hub, events, history, faults>>

add(w, s) == [hub EXCEPT ![w] = @ \cup {s}]
remove(s) == [w \in Workspaces |-> hub[w] \ {s}]
WorkspaceFull(w) == Cardinality(hub[w]) >= MaxPerWorkspace

\* The heartbeat, the revalidation and the listeners are set up in the same callback.
Admitted(s) == [conn[s] EXCEPT !.phase = "in", !.alive = TRUE, !.timers = TRUE]

\* verify has looked the key up (what is no key at all fares like one that was not created
\* yet), and the socket has not been given up.  One that was closed meanwhile is added to
\* the hub all the same.
Verified(s) ==
  LET k == conn[s].key  w == WorkspaceOf[k] IN
  /\ conn[s].phase = "pending"
  /\ pendingAuth' = pendingAuth - 1
  /\ IF ~verify(keys[k], AddressOf[s]) \/ WorkspaceFull(w)
     THEN Becomes(s, Rejected(s)) /\ UNCHANGED <<hub, joined>>
     ELSE /\ Becomes(s, Admitted(s))
          /\ hub' = add(w, s)
          /\ joined' = [joined EXCEPT ![s] = IF reader.last = Dollar THEN 0 ELSE reader.last]
  /\ UNCHANGED <<keys, events, early, faults>>

AuthTimeout(s) ==
  /\ conn[s].phase = "pending"
  /\ pendingAuth' = pendingAuth - 1
  /\ Becomes(s, [Rejected(s) EXCEPT !.phase = "late"])
  /\ UNCHANGED <<keys, hub, events, history, faults>>

\* Mutation: the answer gives the place back that the timeout has already given back.
LateAnswerCounted(s) ==
  /\ conn[s].phase = "late" /\ pendingAuth > 0
  /\ Becomes(s, Rejected(s)) /\ pendingAuth' = pendingAuth - 1
  /\ UNCHANGED <<keys, hub, events, history, faults>>

\* The lookup of a socket that was given up ends.
LateAnswer(s) ==
  /\ conn[s].phase = "late"
  /\ Becomes(s, Rejected(s))
  /\ UNCHANGED <<keys, pendingAuth, hub, events, history, faults>>

-----------------------------------------------------------------------------
(* The end of a connection.                                                *)

\* The close event: the listener that an admission set up clears the timers and leaves
\* the hub.  A socket whose key is still looked up has no listener yet.
Gone(s) ==
  /\ IF conn[s].phase \in {"pending", "late"}
     THEN /\ Becomes(s, [conn[s] EXCEPT !.net = "closed"])
          /\ early' = early \cup {s}
          /\ UNCHANGED <<hub, sent, joined>>
     ELSE /\ Becomes(s, Dead)
          /\ hub' = remove(s)
          /\ sent' = [sent EXCEPT ![s] = <<>>]
          /\ joined' = [joined EXCEPT ![s] = 0] /\ early' = early \ {s}
  /\ UNCHANGED <<keys, pendingAuth, stream, reader, base>>

ClientCloses(s) == conn[s].net = "open" /\ Gone(s) /\ UNCHANGED faults

\* The closing handshake of a rejected socket ends, or the grace period.
CloseEnds(s) == conn[s].net = "closing" /\ Gone(s) /\ UNCHANGED faults

\* The client is cut off; nothing tells the server.
ClientVanishes(s) ==
  /\ Fault
  /\ conn[s].net = "open"
  /\ Becomes(s, [conn[s] EXCEPT !.net = "silent"])
  /\ UNCHANGED <<keys, pendingAuth, hub, events, history>>

\* terminate() does nothing to a socket that is closed.
terminate(s) == conn[s].net # "closed" /\ Gone(s)

Heartbeat(s) ==
  /\ conn[s].timers
  /\ \/ ~conn[s].alive /\ terminate(s)
     \/ /\ conn[s].alive
        /\ Becomes(s, [conn[s] EXCEPT !.alive = FALSE])
        /\ UNCHANGED <<keys, pendingAuth, hub, events, history>>
  /\ UNCHANGED faults

Pong(s) ==
  /\ conn[s].net = "open" /\ conn[s].timers
  /\ Becomes(s, [conn[s] EXCEPT !.alive = TRUE])
  /\ UNCHANGED <<keys, pendingAuth, hub, events, history, faults>>

\* isActive is false; when it is true, or fails, nothing happens.
Revalidate(s) ==
  /\ conn[s].timers /\ ~isActive(keys[conn[s].key])
  /\ terminate(s)
  /\ UNCHANGED faults

-----------------------------------------------------------------------------
(* The keys.                                                               *)

KeyBecomes(k, row) ==
  /\ keys' = [keys EXCEPT ![k] = row]
  /\ UNCHANGED <<conn, pendingAuth, hub, events, history, faults>>

CreateKey(k) == ~keys[k].stored /\ KeyBecomes(k, create(BodyOf[k]))
RevokeKey(k) == Revocable(keys[k]) /\ KeyBecomes(k, revoke(keys[k]))
KeyExpires(k) == Expirable(keys[k]) /\ KeyBecomes(k, expire(keys[k]))

-----------------------------------------------------------------------------
(* The broadcaster.                                                        *)

sockets == <<keys, conn, pendingAuth, hub, history>>

Publish(w) ==
  /\ Len(stream) < MaxEvents
  /\ stream' = Append(stream, w)
  /\ UNCHANGED <<sockets, reader, sent, base, faults>>

\* XREAD resolves '$' when it is called.
Block ==
  /\ reader.at = "next"
  /\ reader' = [reader EXCEPT !.at = "waiting",
                              !.from = IF reader.last = Dollar THEN Len(stream) ELSE reader.last]
  /\ UNCHANGED <<sockets, stream, sent, base, faults>>

\* The events of one workspace, in order, after one place of the stream and up to another.
Own(from, to, w) ==
  LET upTo[e \in from..to] == IF e = from THEN <<>>
                              ELSE IF stream[e] = w THEN Append(upTo[e - 1], e)
                              ELSE upTo[e - 1]
  IN upTo[to]

\* broadcast: each event goes to the open sockets of its workspace.
broadcast(from, to) ==
  sent' = [s \in Sockets |->
    LET places == {w \in Workspaces : s \in hub[w]} IN
    IF conn[s].net \notin {"open", "silent"} \/ places = {} THEN sent[s]
    ELSE sent[s] \o Own(from, to, CHOOSE w \in places : TRUE)]

Deliver(to) ==
  /\ reader.at = "waiting" /\ to \in (reader.from + 1)..Len(stream)
  /\ broadcast(reader.from, to)
  /\ base' = IF reader.last = Dollar THEN reader.from ELSE base
  /\ reader' = [reader EXCEPT !.at = "next", !.last = to]
  /\ UNCHANGED <<sockets, stream, faults>>

\* BLOCK runs out with nothing to return.
ReadNothing ==
  /\ reader.at = "waiting" /\ reader.from = Len(stream)
  /\ reader' = [reader EXCEPT !.at = "next"]
  /\ UNCHANGED <<sockets, stream, sent, base, faults>>

ReadFails ==
  /\ Fault
  /\ reader.at = "waiting"
  /\ reader' = [reader EXCEPT !.at = "backoff"]
  /\ UNCHANGED <<sockets, stream, sent, base>>

\* Mutation: after an error the broadcaster starts over from '$'.
ResumeAtEnd ==
  /\ reader.at = "backoff"
  /\ reader' = [reader EXCEPT !.at = "next", !.last = Dollar]
  /\ UNCHANGED <<sockets, stream, sent, base, faults>>

Resume ==
  /\ reader.at = "backoff"
  /\ reader' = [reader EXCEPT !.at = "next"]
  /\ UNCHANGED <<sockets, stream, sent, base, faults>>

-----------------------------------------------------------------------------
\* The process dies and is restarted with an empty hub and a new broadcaster.
Restart ==
  /\ conn' = [s \in Sockets |-> IF conn[s] = Unused THEN Unused ELSE Dead]
  /\ pendingAuth' = 0
  /\ hub' = [w \in Workspaces |-> {}]
  /\ reader' = Start /\ base' = 0
  /\ sent' = [s \in Sockets |-> <<>>]
  /\ joined' = [s \in Sockets |-> 0] /\ early' = {}
  /\ UNCHANGED <<keys, stream>>

\* The lookup of a key fails: nobody handles the rejection, which ends the process.
VerifyFails(s) == Fault /\ conn[s].phase \in {"pending", "late"} /\ Restart

Stop == Fault /\ Restart

SocketStep(s) ==
  \/ \E k \in Keys : Connect(s, k)
  \/ Verified(s) \/ AuthTimeout(s) \/ LateAnswer(s) \/ VerifyFails(s)
  \/ ClientCloses(s) \/ CloseEnds(s) \/ ClientVanishes(s)
  \/ Heartbeat(s) \/ Pong(s) \/ Revalidate(s)

ReaderStep ==
  \/ Block \/ (\E to \in Positions : Deliver(to)) \/ ReadNothing \/ ReadFails \/ Resume

Next ==
  \/ \E s \in Sockets : SocketStep(s)
  \/ ReaderStep
  \/ \E k \in Keys : CreateKey(k) \/ RevokeKey(k) \/ KeyExpires(k)
  \/ \E w \in Workspaces : Publish(w)
  \/ Stop

Spec == Init /\ [][Next]_vars

\* The timers of an admitted socket fire, and a lookup ends or times out.
Fairness ==
  \A s \in Sockets : WF_vars(Heartbeat(s)) /\ WF_vars(Revalidate(s))

FairSpec == Spec /\ Fairness

-----------------------------------------------------------------------------
(* Properties.                                                             *)

\* Every socket that waits for its lookup is counted once, and nothing else is: the
\* timeout and the answer of a lookup never both give the place back.  A workspace has
\* no more sockets than its limit, each with a key of that workspace that was created and
\* that may be used from the address of the socket, and its timers running; a socket that
\* left the hub has no timers.  Only one that was closed while
\* its key was looked up can hold a place although it is closed.
PlacesHeld ==
  /\ pendingAuth <= MaxPending
  /\ pendingAuth = Cardinality({s \in Sockets : conn[s].phase = "pending"})
  /\ \A w \in Workspaces : Cardinality(hub[w]) <= MaxPerWorkspace
  /\ \A s \in Sockets, w \in Workspaces :
       s \in hub[w] <=> conn[s].timers /\ WorkspaceOf[conn[s].key] = w
  /\ \A s \in Sockets : conn[s].timers =>
       LET row == keys[conn[s].key] IN
       row.stored /\ (row.allowedIps # Null => AddressOf[s] \in UNION row.allowedIps)
  /\ \A s \in Sockets :
       conn[s].timers => conn[s].phase = "in" /\ (conn[s].net \in {"open", "silent"} \/ s \in early)

\* Once a broadcaster has read its first event, a socket that stays in the hub is sent
\* every event of its workspace, once, in order, and no event of another workspace.
NothingMissed ==
  \A s \in Sockets :
    conn[s].phase = "in" /\ conn[s].net \in {"open", "silent"} =>
      sent[s] = IF reader.last = Dollar THEN <<>>
                ELSE Own(IF joined[s] > base THEN joined[s] ELSE base, reader.last,
                         WorkspaceOf[conn[s].key])

\* A socket with a key that was revoked or has expired, or a client that no longer answers.
Stale(s) ==
  /\ conn[s].phase = "in" /\ conn[s].net # "closed"
  /\ keys[conn[s].key].ended # "no" \/ conn[s].net = "silent"

\* A socket does not outlive its key or its client for good: it is terminated.
StaleSocketsDropped == \A s \in Sockets : []<>~Stale(s)
=============================================================================
