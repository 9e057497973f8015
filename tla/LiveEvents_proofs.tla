-------------------------- MODULE LiveEvents_proofs --------------------------
(***************************************************************************)
(* The event stream, for any number of sockets, keys, workspaces and       *)
(* events: the count of the lookups, the limits and who is in the hub, and *)
(* that a socket in the hub is sent every event of its workspace, once and  *)
(* in order.                                                               *)
(***************************************************************************)
EXTENDS LiveEvents, Integers, FiniteSetTheorems, SequenceTheorems, WellFoundedInduction, TLAPS

Row == [stored: BOOLEAN, expires: BOOLEAN, allowedIps: {Null} \cup SUBSET SUBSET Addresses,
        ended: {"no", "revoked", "expired"}]

Conn == [net: {"open", "silent", "closing", "closed"},
         phase: {"new", "pending", "late", "rejected", "in"},
         key: Keys \cup {NoKey}, alive: BOOLEAN, timers: BOOLEAN]

HubTypes ==
  /\ keys \in [Keys -> Row] /\ conn \in [Sockets -> Conn]
  /\ hub \in [Workspaces -> SUBSET Sockets] /\ early \in SUBSET Sockets

Pending == {s \in Sockets : conn[s].phase = "pending"}

\* A socket in the phases of an admission has the key it presented; its timers run while
\* it is in the hub, and only then.  One whose connection is closed all the same was
\* closed early.
PhaseSound(c, isEarly) ==
  /\ c.phase \in {"pending", "in"} => c.key \in Keys
  /\ c.timers <=> c.phase = "in"
  /\ c.phase = "pending" => c.net # "closing"
  /\ c.phase \in {"pending", "late", "in"} /\ c.net = "closed" => isEarly
  /\ c.phase = "in" => c.net # "closing"

\* The key of an admitted socket, in the row r, may be used from its address.
KeySound(s, r) ==
  r.stored /\ (r.allowedIps # Null => AddressOf[s] \in UNION r.allowedIps)

InHub(s, w) == conn[s].timers /\ WorkspaceOf[conn[s].key] = w

\* The inductive invariant.
HubInv ==
  /\ HubTypes
  /\ pendingAuth = Cardinality(Pending) /\ pendingAuth <= MaxPending
  /\ \A w \in Workspaces : Cardinality(hub[w]) <= MaxPerWorkspace
  /\ \A s \in Sockets, w \in Workspaces : s \in hub[w] <=> InHub(s, w)
  /\ \A s \in Sockets : PhaseSound(conn[s], s \in early)
  /\ \A s \in Sockets : conn[s].timers => KeySound(s, keys[conn[s].key])

-----------------------------------------------------------------------------
(* What the steps have in common.                                          *)

LEMMA Enough == HubInv => PlacesHeld
<1> SUFFICES ASSUME HubInv PROVE PlacesHeld
  OBVIOUS
<1>1. \A s \in Sockets :
        conn[s].timers => conn[s].phase = "in" /\ (conn[s].net \in {"open", "silent"} \/ s \in early)
  <2> SUFFICES ASSUME NEW s \in Sockets, conn[s].timers
               PROVE  conn[s].phase = "in" /\ (conn[s].net \in {"open", "silent"} \/ s \in early)
    OBVIOUS
  <2>1. conn[s] \in Conn /\ PhaseSound(conn[s], s \in early)
    BY DEF HubInv, HubTypes
  <2> QED  BY <2>1 DEF Conn, PhaseSound
<1> QED  BY <1>1 DEF HubInv, PlacesHeld, Pending, InHub, KeySound

LEMMA PendingFinite == IsFiniteSet(Pending) /\ IsFiniteSet(Pending')
                       /\ Cardinality(Pending) \in Nat /\ Cardinality(Pending') \in Nat
<1>1. IsFiniteSet(Sockets)
  BY LiveAssumption
<1>2. Pending \subseteq Sockets /\ Pending' \subseteq Sockets
  BY DEF Pending
<1> QED  BY <1>1, <1>2, FS_Subset, FS_CardinalityType

\* One socket changes: how many wait for their lookup afterwards.
LEMMA Counting ==
  ASSUME HubInv, NEW s \in Sockets, NEW c \in Conn, Becomes(s, c)
  PROVE  /\ c.phase = "pending" /\ conn[s].phase # "pending" =>
              Cardinality(Pending') = Cardinality(Pending) + 1
         /\ c.phase # "pending" /\ conn[s].phase = "pending" =>
              /\ Cardinality(Pending') = Cardinality(Pending) - 1
              /\ Cardinality(Pending) > 0
         /\ (c.phase = "pending") = (conn[s].phase = "pending") =>
              Cardinality(Pending') = Cardinality(Pending)
<1>1. \A t \in Sockets : conn'[t] = IF t = s THEN c ELSE conn[t]
  BY DEF Becomes, HubInv, HubTypes
<1>2. ASSUME c.phase = "pending", conn[s].phase # "pending"
      PROVE  Cardinality(Pending') = Cardinality(Pending) + 1
  <2>1. Pending' = Pending \cup {s} /\ s \notin Pending
    BY <1>1, <1>2 DEF Pending
  <2> QED  BY <2>1, PendingFinite, FS_AddElement
<1>3. ASSUME c.phase # "pending", conn[s].phase = "pending"
      PROVE  Cardinality(Pending') = Cardinality(Pending) - 1 /\ Cardinality(Pending) > 0
  <2>1. Pending' = Pending \ {s} /\ s \in Pending
    BY <1>1, <1>3 DEF Pending
  <2>2. Cardinality(Pending') = Cardinality(Pending) - 1
    BY <2>1, PendingFinite, FS_RemoveElement
  <2> QED  BY <2>2, PendingFinite
<1>4. ASSUME (c.phase = "pending") = (conn[s].phase = "pending")
      PROVE  Cardinality(Pending') = Cardinality(Pending)
  <2>1. Pending' = Pending
    BY <1>1, <1>4 DEF Pending
  <2> QED  BY <2>1
<1> QED  BY <1>2, <1>3, <1>4

\* One socket changes, and its place in the hub does not.
LEMMA SocketChanges ==
  ASSUME HubInv, NEW s \in Sockets, NEW c \in Conn, Becomes(s, c), UNCHANGED <<keys, hub>>,
         early' = early \/ early' = early \cup {s}, PhaseSound(c, s \in early'),
         c.timers = conn[s].timers, c.timers => c.key = conn[s].key,
         pendingAuth' = Cardinality(Pending'), pendingAuth' <= MaxPending
  PROVE  HubInv'
<1>1. \A t \in Sockets : conn'[t] = IF t = s THEN c ELSE conn[t]
  BY DEF Becomes, HubInv, HubTypes
<1>2. HubTypes'
  BY DEF Becomes, HubInv, HubTypes
<1>3. \A t \in Sockets : PhaseSound(conn[t], t \in early)'
  <2> TAKE t \in Sockets
  <2>1. CASE t = s
    BY <1>1, <2>1
  <2>2. CASE t # s
    <3>1. conn'[t] = conn[t] /\ (t \in early) = (t \in early') /\ PhaseSound(conn[t], t \in early)
      BY <1>1, <2>2 DEF HubInv
    <3> QED  BY <3>1
  <2> QED  BY <2>1, <2>2
<1>4. \A t \in Sockets, w \in Workspaces : (t \in hub[w] <=> InHub(t, w))'
  <2> TAKE t \in Sockets, w \in Workspaces
  <2>1. InHub(t, w)' = InHub(t, w)
    BY <1>1 DEF InHub
  <2> QED  BY <2>1 DEF HubInv
<1>5. \A t \in Sockets : (conn[t].timers => KeySound(t, keys[conn[t].key]))'
  BY <1>1 DEF HubInv, KeySound
<1> QED  BY <1>2, <1>3, <1>4, <1>5 DEF HubInv


\* The fields of the sockets that the steps make.
LEMMA Conns ==
  ASSUME HubInv, NEW s \in Sockets
  PROVE  /\ conn[s] \in Conn /\ PhaseSound(conn[s], s \in early)
         /\ Unused \in Conn /\ Dead \in Conn /\ Rejected(s) \in Conn
         /\ Unused.phase = "new" /\ ~Unused.timers /\ Unused.net = "closed"
         /\ Dead.phase = "rejected" /\ ~Dead.timers /\ Dead.net = "closed"
         /\ Rejected(s).phase = "rejected" /\ ~Rejected(s).timers
BY DEF HubInv, HubTypes, Unused, Dead, Rejected, Conn

\* A socket leaves the hub.
LEMMA Leaving ==
  ASSUME HubInv, NEW s \in Sockets, Becomes(s, Dead), conn[s].phase \notin {"pending", "late"},
         hub' = [w \in Workspaces |-> hub[w] \ {s}], early' = early \ {s},
         UNCHANGED <<keys, pendingAuth>>
  PROVE  HubInv'
<1>1. Dead \in Conn /\ Dead.phase = "rejected" /\ ~Dead.timers
  BY Conns
<1>2. \A t \in Sockets : conn'[t] = IF t = s THEN Dead ELSE conn[t]
  BY DEF Becomes, HubInv, HubTypes
<1>3. HubTypes'
  BY <1>1 DEF Becomes, HubInv, HubTypes
<1>4. pendingAuth' = Cardinality(Pending') /\ pendingAuth' <= MaxPending
  BY <1>1, Counting DEF HubInv
<1>5. ASSUME NEW w \in Workspaces
      PROVE  Cardinality(hub'[w]) <= MaxPerWorkspace
  <2>1. IsFiniteSet(hub[w]) /\ hub'[w] \subseteq hub[w] /\ Cardinality(hub[w]) <= MaxPerWorkspace
    BY LiveAssumption, FS_Subset DEF HubInv, HubTypes
  <2>2. /\ Cardinality(hub'[w]) <= Cardinality(hub[w])
        /\ Cardinality(hub'[w]) \in Nat /\ Cardinality(hub[w]) \in Nat
    BY <2>1, FS_Subset, FS_CardinalityType
  <2> QED  BY <2>1, <2>2, LiveAssumption
<1>6. \A t \in Sockets, w \in Workspaces : (t \in hub[w] <=> InHub(t, w))'
  <2> TAKE t \in Sockets, w \in Workspaces
  <2>1. (t \in hub[w] <=> InHub(t, w)) /\ hub'[w] = hub[w] \ {s}
    BY DEF HubInv
  <2>2. CASE t = s
    BY <1>1, <1>2, <2>1, <2>2 DEF InHub
  <2>3. CASE t # s
    BY <1>2, <2>1, <2>3 DEF InHub
  <2> QED  BY <2>2, <2>3
<1>7. \A t \in Sockets : PhaseSound(conn[t], t \in early)'
  <2> TAKE t \in Sockets
  <2>1. CASE t = s
    BY <1>1, <1>2, <2>1 DEF PhaseSound
  <2>2. CASE t # s
    <3>1. conn'[t] = conn[t] /\ (t \in early) = (t \in early') /\ PhaseSound(conn[t], t \in early)
      BY <1>2, <2>2 DEF HubInv
    <3> QED  BY <3>1
  <2> QED  BY <2>1, <2>2
<1>8. \A t \in Sockets : (conn[t].timers => KeySound(t, keys[conn[t].key]))'
  BY <1>1, <1>2 DEF HubInv, KeySound
<1> QED  BY <1>3, <1>4, <1>5, <1>6, <1>7, <1>8 DEF HubInv

LEMMA Going == ASSUME HubInv, NEW s \in Sockets, Gone(s) PROVE HubInv'
<1>1. CASE conn[s].phase \in {"pending", "late"}
  <2> DEFINE c == [conn[s] EXCEPT !.net = "closed"]
  <2>1. /\ Becomes(s, c) /\ early' = early \cup {s} /\ UNCHANGED <<keys, hub, pendingAuth>>
    BY <1>1 DEF Gone, remove
  <2>2. conn[s] \in Conn /\ PhaseSound(conn[s], s \in early)
    BY Conns
  <2>3. /\ c \in Conn /\ c.phase = conn[s].phase /\ c.timers = conn[s].timers
        /\ c.key = conn[s].key /\ c.net = "closed"
    BY <2>2 DEF Conn
  <2> HIDE DEF c
  <2>4. PhaseSound(c, s \in early')
    BY <1>1, <2>1, <2>2, <2>3 DEF PhaseSound
  <2>5. pendingAuth' = Cardinality(Pending') /\ pendingAuth' <= MaxPending
    BY <2>1, <2>3, Counting DEF HubInv
  <2> QED  BY <2>1, <2>3, <2>4, <2>5, SocketChanges
<1>2. CASE conn[s].phase \notin {"pending", "late"}
  BY <1>2, Leaving DEF Gone, remove
<1> QED  BY <1>1, <1>2

-----------------------------------------------------------------------------
(* The steps.                                                              *)

LEMMA Connecting == ASSUME HubInv, NEW s \in Sockets, NEW k \in Keys, Connect(s, k) PROVE HubInv'
<1> DEFINE fresh == [Unused EXCEPT !.net = "open", !.key = k]
           full  == [fresh EXCEPT !.net = "closing", !.phase = "rejected"]
           one   == [fresh EXCEPT !.phase = "pending"]
<1>1. /\ conn[s] = Unused /\ UNCHANGED <<keys, hub>> /\ early' = early
      /\ \/ pendingAuth >= MaxPending /\ Becomes(s, full) /\ pendingAuth' = pendingAuth
         \/ ~(pendingAuth >= MaxPending) /\ Becomes(s, one) /\ pendingAuth' = pendingAuth + 1
  BY DEF Connect, history
<1>2. conn[s].phase = "new" /\ ~conn[s].timers
  BY <1>1, Conns
<1>3. /\ full \in Conn /\ full.phase = "rejected" /\ ~full.timers
      /\ one \in Conn /\ one.phase = "pending" /\ ~one.timers /\ one.net = "open" /\ one.key = k
  BY DEF Conn, Unused
<1> HIDE DEF full, one
<1>4. full.timers = conn[s].timers /\ one.timers = conn[s].timers
  <2>1. conn[s].timers \in BOOLEAN /\ full.timers \in BOOLEAN /\ one.timers \in BOOLEAN
    BY <1>3, Conns DEF Conn
  <2> QED  BY <1>2, <1>3, <2>1
<1>5. PhaseSound(full, s \in early') /\ PhaseSound(one, s \in early')
  BY <1>3 DEF PhaseSound
<1>6. pendingAuth = Cardinality(Pending) /\ pendingAuth <= MaxPending /\ MaxPending \in Nat
      /\ Cardinality(Pending) \in Nat
  BY LiveAssumption, PendingFinite DEF HubInv
<1>7. CASE pendingAuth >= MaxPending /\ Becomes(s, full) /\ pendingAuth' = pendingAuth
  <2>1. pendingAuth' = Cardinality(Pending') /\ pendingAuth' <= MaxPending
    BY <1>2, <1>3, <1>6, <1>7, Counting
  <2> QED  BY <1>1, <1>3, <1>5, <1>7, <1>4, <2>1, SocketChanges
<1>8. CASE ~(pendingAuth >= MaxPending) /\ Becomes(s, one) /\ pendingAuth' = pendingAuth + 1
  <2>1. pendingAuth' = Cardinality(Pending') /\ pendingAuth' <= MaxPending
    BY <1>2, <1>3, <1>6, <1>8, Counting
  <2> QED  BY <1>1, <1>3, <1>5, <1>8, <1>4, <2>1, SocketChanges
<1> QED  BY <1>1, <1>7, <1>8

LEMMA TimingOut == ASSUME HubInv, NEW s \in Sockets, AuthTimeout(s) PROVE HubInv'
<1> DEFINE c == [Rejected(s) EXCEPT !.phase = "late"]
<1>1. /\ conn[s].phase = "pending" /\ Becomes(s, c) /\ pendingAuth' = pendingAuth - 1
      /\ UNCHANGED <<keys, hub>> /\ early' = early
  BY DEF AuthTimeout, history
<1>2. conn[s] \in Conn /\ PhaseSound(conn[s], s \in early)
  BY Conns
<1>3. /\ c \in Conn /\ c.phase = "late" /\ ~c.timers
      /\ c.net = IF conn[s].net = "closed" THEN "closed" ELSE "closing"
  BY DEF Rejected, Dead, Unused, Conn
<1> HIDE DEF c
<1>4. PhaseSound(c, s \in early') /\ ~conn[s].timers
  BY <1>1, <1>2, <1>3 DEF PhaseSound
<1>5. pendingAuth' = Cardinality(Pending') /\ pendingAuth' <= MaxPending
  BY <1>1, <1>3, Counting, PendingFinite, LiveAssumption DEF HubInv
<1> QED  BY <1>1, <1>2, <1>3, <1>4, <1>5, SocketChanges DEF Conn

LEMMA AnsweringLate == ASSUME HubInv, NEW s \in Sockets, LateAnswer(s) PROVE HubInv'
<1> DEFINE c == Rejected(s)
<1>1. /\ conn[s].phase = "late" /\ Becomes(s, c) /\ pendingAuth' = pendingAuth
      /\ UNCHANGED <<keys, hub>> /\ early' = early
  BY DEF LateAnswer, history
<1>2. conn[s] \in Conn /\ PhaseSound(conn[s], s \in early) /\ c \in Conn
      /\ c.phase = "rejected" /\ ~c.timers
  BY Conns
<1> HIDE DEF c
<1>3. PhaseSound(c, s \in early') /\ ~conn[s].timers
  BY <1>1, <1>2 DEF PhaseSound
<1>4. pendingAuth' = Cardinality(Pending') /\ pendingAuth' <= MaxPending
  BY <1>1, <1>2, Counting DEF HubInv
<1> QED  BY <1>1, <1>2, <1>3, <1>4, SocketChanges DEF Conn

\* An admitted socket that changes in its connection or its answer only.
LEMMA Beating ==
  ASSUME HubInv, NEW s \in Sockets, Heartbeat(s) \/ Pong(s) \/ ClientVanishes(s) \/ Revalidate(s)
  PROVE  HubInv'
<1>1. conn[s] \in Conn /\ PhaseSound(conn[s], s \in early)
  BY Conns
<1>2. CASE terminate(s)
  BY <1>2, Going DEF terminate
<1>3. ASSUME NEW b \in BOOLEAN, conn[s].timers, Becomes(s, [conn[s] EXCEPT !.alive = b]),
             UNCHANGED <<keys, pendingAuth, hub, history>>
      PROVE  HubInv'
  <2> DEFINE c == [conn[s] EXCEPT !.alive = b]
  <2>1. /\ c \in Conn /\ c.phase = conn[s].phase /\ c.timers = conn[s].timers
        /\ c.key = conn[s].key /\ c.net = conn[s].net /\ Becomes(s, c)
    BY <1>1, <1>3 DEF Conn
  <2> HIDE DEF c
  <2>2. early' = early /\ PhaseSound(c, s \in early')
    BY <1>1, <1>3, <2>1 DEF history, PhaseSound
  <2>3. pendingAuth' = Cardinality(Pending') /\ pendingAuth' <= MaxPending
    BY <1>3, <2>1, Counting DEF HubInv
  <2> QED  BY <1>3, <2>1, <2>2, <2>3, SocketChanges
<1>4. CASE ClientVanishes(s)
  <2> DEFINE c == [conn[s] EXCEPT !.net = "silent"]
  <2>1. /\ c \in Conn /\ c.phase = conn[s].phase /\ c.timers = conn[s].timers
        /\ c.key = conn[s].key /\ c.net = "silent" /\ Becomes(s, c)
    BY <1>1, <1>4 DEF Conn, ClientVanishes
  <2> HIDE DEF c
  <2>2. early' = early /\ PhaseSound(c, s \in early') /\ UNCHANGED <<keys, pendingAuth, hub>>
    BY <1>1, <1>4, <2>1 DEF history, PhaseSound, ClientVanishes
  <2>3. pendingAuth' = Cardinality(Pending') /\ pendingAuth' <= MaxPending
    BY <2>1, <2>2, Counting DEF HubInv
  <2> QED  BY <2>1, <2>2, <2>3, SocketChanges
<1>5. CASE Heartbeat(s)
  BY <1>2, <1>3, <1>5 DEF Heartbeat
<1>6. CASE Pong(s)
  BY <1>3, <1>6 DEF Pong
<1>7. CASE Revalidate(s)
  BY <1>2, <1>7 DEF Revalidate
<1> QED  BY <1>4, <1>5, <1>6, <1>7


\* An admission: there was room, and the key of that workspace may be used from there.
LEMMA Verifying == ASSUME HubInv, NEW s \in Sockets, Verified(s) PROVE HubInv'
<1> DEFINE k == conn[s].key
           w == WorkspaceOf[k]
<1>1. /\ conn[s].phase = "pending" /\ pendingAuth' = pendingAuth - 1
      /\ UNCHANGED keys /\ early' = early
      /\ \/ Becomes(s, Rejected(s)) /\ UNCHANGED hub
         \/ /\ verify(keys[k], AddressOf[s]) /\ ~WorkspaceFull(w)
            /\ Becomes(s, Admitted(s)) /\ hub' = [hub EXCEPT ![w] = @ \cup {s}]
  BY DEF Verified, add
<1>2. conn[s] \in Conn /\ PhaseSound(conn[s], s \in early)
  BY Conns
<1>3. k \in Keys /\ w \in Workspaces /\ conn[s].timers = FALSE
  BY <1>1, <1>2, LiveAssumption DEF PhaseSound, Conn
<1>4. CASE Becomes(s, Rejected(s)) /\ UNCHANGED hub
  <2> DEFINE c == Rejected(s)
  <2>1. c \in Conn /\ c.phase = "rejected" /\ c.timers = FALSE
    BY Conns DEF Conn
  <2> HIDE DEF c
  <2>2. PhaseSound(c, s \in early')
    BY <2>1 DEF PhaseSound
  <2>3. Becomes(s, c)
    BY <1>4 DEF c
  <2>4. pendingAuth' = Cardinality(Pending') /\ pendingAuth' <= MaxPending
    BY <1>1, <2>1, <2>3, Counting, PendingFinite, LiveAssumption DEF HubInv
  <2> QED  BY <1>1, <1>3, <1>4, <2>1, <2>2, <2>3, <2>4, SocketChanges
<1>5. CASE /\ verify(keys[k], AddressOf[s]) /\ ~WorkspaceFull(w)
           /\ Becomes(s, Admitted(s)) /\ hub' = [hub EXCEPT ![w] = @ \cup {s}]
  <2> DEFINE c == Admitted(s)
  <2>1. /\ c \in Conn /\ c.phase = "in" /\ c.timers = TRUE /\ c.key = k
        /\ c.net = conn[s].net
    BY <1>2 DEF Admitted, Conn
  <2> HIDE DEF c
  <2>2. PhaseSound(c, s \in early')
    BY <1>1, <1>2, <1>3, <2>1 DEF PhaseSound
  <2>3. Becomes(s, c)
    BY <1>5 DEF c
  <2>4. \A t \in Sockets : conn'[t] = IF t = s THEN c ELSE conn[t]
    BY <2>3 DEF Becomes, HubInv, HubTypes
  <2>5. \A v \in Workspaces : hub'[v] = IF v = w THEN hub[w] \cup {s} ELSE hub[v]
    BY <1>3, <1>5 DEF HubInv, HubTypes
  <2>6. HubTypes'
    <3>1. hub' \in [Workspaces -> SUBSET Sockets]
      BY <1>3, <1>5 DEF HubInv, HubTypes
    <3> QED  BY <1>1, <2>1, <2>3, <3>1 DEF Becomes, HubInv, HubTypes
  <2>7. pendingAuth' = Cardinality(Pending') /\ pendingAuth' <= MaxPending
    BY <1>1, <2>1, <2>3, Counting, PendingFinite, LiveAssumption DEF HubInv
  <2>8. ASSUME NEW v \in Workspaces
        PROVE  Cardinality(hub'[v]) <= MaxPerWorkspace
    <3>1. CASE v # w
      BY <2>5, <3>1 DEF HubInv
    <3>2. CASE v = w
      <4>1. IsFiniteSet(hub[w]) /\ Cardinality(hub[w]) \in Nat
        BY <1>3, LiveAssumption, FS_Subset, FS_CardinalityType DEF HubInv, HubTypes
      <4>2. s \notin hub[w]
        BY <1>3 DEF HubInv, InHub
      <4>3. Cardinality(hub'[w]) = Cardinality(hub[w]) + 1
        <5>1. hub'[w] = hub[w] \cup {s}
          BY <1>3, <2>5
        <5> QED  BY <4>1, <4>2, <5>1, FS_AddElement
      <4> QED  BY <1>5, <3>2, <4>1, <4>3, LiveAssumption DEF WorkspaceFull
    <3> QED  BY <3>1, <3>2
  <2>9. \A t \in Sockets, v \in Workspaces : (t \in hub[v] <=> InHub(t, v))'
    <3> TAKE t \in Sockets, v \in Workspaces
    <3>1. t \in hub[v] <=> InHub(t, v)
      BY DEF HubInv
    <3>2. CASE t = s
      BY <1>3, <2>1, <2>4, <2>5, <3>1, <3>2 DEF InHub
    <3>3. CASE t # s
      BY <2>4, <2>5, <3>1, <3>3 DEF InHub
    <3> QED  BY <3>2, <3>3
  <2>10. \A t \in Sockets : PhaseSound(conn[t], t \in early)'
    <3> TAKE t \in Sockets
    <3>1. CASE t = s
      BY <2>2, <2>4, <3>1
    <3>2. CASE t # s
      BY <1>1, <2>4, <3>2 DEF HubInv
    <3> QED  BY <3>1, <3>2
  <2>11. \A t \in Sockets : (conn[t].timers => KeySound(t, keys[conn[t].key]))'
    <3>1. KeySound(s, keys[k])
      BY <1>5 DEF verify, findActiveByHash, Active, ipAllowed, ipMatchesEntry, KeySound
    <3> QED  BY <1>1, <2>1, <2>4, <3>1 DEF HubInv, KeySound
  <2> QED  BY <2>6, <2>7, <2>8, <2>9, <2>10, <2>11 DEF HubInv
<1> QED  BY <1>1, <1>4, <1>5

\* A key changes: none that a socket uses is made anew.
LEMMA KeyChanges ==
  ASSUME HubInv, NEW k \in Keys, CreateKey(k) \/ RevokeKey(k) \/ KeyExpires(k)
  PROVE  HubInv'
<1>2. keys[k] \in Row /\ BodyOf[k] \in Bodies
  BY LiveAssumption DEF HubInv, HubTypes
<1>3. PICK row : /\ keys' = [keys EXCEPT ![k] = row] /\ row \in Row
                 /\ keys[k].stored => row.stored /\ row.allowedIps = keys[k].allowedIps
  <2>1. CASE CreateKey(k)
    <3>1. create(BodyOf[k]) \in Row
      <4>1. BodyOf[k].allowedIps \in {Null} \cup SUBSET SUBSET Addresses /\ BodyOf[k].expires \in BOOLEAN
        BY <1>2 DEF Bodies
      <4> QED  BY <4>1 DEF create, NotCreated, Row
    <3> QED  BY <2>1, <3>1 DEF CreateKey, KeyBecomes
  <2>2. \A end \in {"revoked", "expired"} :
          LET ended == [keys[k] EXCEPT !.ended = end] IN
          /\ ended \in Row /\ ended.stored = keys[k].stored
          /\ ended.allowedIps = keys[k].allowedIps
    BY <1>2 DEF Row
  <2>3. CASE RevokeKey(k)
    BY <2>2, <2>3 DEF RevokeKey, KeyBecomes, revoke
  <2>4. CASE KeyExpires(k)
    BY <2>2, <2>4 DEF KeyExpires, KeyBecomes, expire
  <2> QED  BY <2>1, <2>3, <2>4
<1>4. UNCHANGED <<conn, pendingAuth, hub, early>>
  BY DEF CreateKey, RevokeKey, KeyExpires, KeyBecomes, history
<1>5. keys' \in [Keys -> Row] /\ \A j \in Keys : keys'[j] = IF j = k THEN row ELSE keys[j]
  BY <1>3 DEF HubInv, HubTypes
<1>6. ASSUME NEW s \in Sockets, conn[s].timers
      PROVE  KeySound(s, keys'[conn[s].key])
  <2>1. conn[s].key \in Keys /\ KeySound(s, keys[conn[s].key])
    <3>1. PhaseSound(conn[s], s \in early)
      BY Conns
    <3> QED  BY <1>6, <3>1 DEF HubInv, PhaseSound
  <2> QED  BY <1>3, <1>5, <2>1 DEF KeySound
<1>7. Pending' = Pending /\ \A s \in Sockets, w \in Workspaces : InHub(s, w)' = InHub(s, w)
  BY <1>4 DEF Pending, InHub
<1> QED  BY <1>4, <1>5, <1>6, <1>7 DEF HubInv, HubTypes, KeySound


\* After a restart nobody is connected.
LEMMA Restarting == ASSUME HubInv, Restart PROVE HubInv'
<1>1. /\ conn' = [s \in Sockets |-> IF conn[s] = Unused THEN Unused ELSE Dead]
      /\ pendingAuth' = 0 /\ hub' = [w \in Workspaces |-> {}] /\ early' = {}
      /\ UNCHANGED keys
  BY DEF Restart
<1>2. Unused \in Conn /\ Dead \in Conn
  BY DEF Unused, Dead, Conn
<1>3. \A s \in Sockets : conn'[s].timers = FALSE /\ conn'[s].phase \in {"new", "rejected"}
  BY <1>1 DEF Unused, Dead
<1>4. HubTypes'
  BY <1>1, <1>2 DEF HubInv, HubTypes
<1>5. pendingAuth' = Cardinality(Pending') /\ pendingAuth' <= MaxPending
  <2>1. Pending' = {}
    BY <1>3 DEF Pending
  <2> QED  BY <1>1, <2>1, FS_EmptySet, LiveAssumption
<1>6. \A w \in Workspaces : Cardinality(hub'[w]) <= MaxPerWorkspace
  BY <1>1, FS_EmptySet, LiveAssumption
<1> QED  BY <1>1, <1>3, <1>4, <1>5, <1>6 DEF HubInv, PhaseSound, InHub

\* The broadcaster, the publishers and what the history keeps.
LEMMA Elsewhere ==
  ASSUME HubInv, UNCHANGED <<keys, conn, pendingAuth, hub, early>>
  PROVE  HubInv'
BY DEF HubInv, HubTypes, Pending, InHub

LEMMA SocketSteps == ASSUME HubInv, NEW s \in Sockets, SocketStep(s) PROVE HubInv'
<1>1. ClientCloses(s) \/ CloseEnds(s) => HubInv'
  BY Going DEF ClientCloses, CloseEnds
<1>2. VerifyFails(s) => HubInv'
  BY Restarting DEF VerifyFails
<1> QED  BY <1>1, <1>2, Connecting, Verifying, TimingOut, AnsweringLate, Beating DEF SocketStep

LEMMA Inductive == HubInv /\ [Next]_vars => HubInv'
<1> SUFFICES ASSUME HubInv, [Next]_vars PROVE HubInv'
  OBVIOUS
<1>1. CASE UNCHANGED vars
  BY <1>1, Elsewhere DEF vars
<1>2. CASE \E s \in Sockets : SocketStep(s)
  BY <1>2, SocketSteps
<1>3. CASE ReaderStep
  BY <1>3, Elsewhere
     DEF ReaderStep, Block, Deliver, ReadNothing, ReadFails, Resume, sockets, history
<1>4. CASE \E k \in Keys : CreateKey(k) \/ RevokeKey(k) \/ KeyExpires(k)
  BY <1>4, KeyChanges
<1>5. CASE \E w \in Workspaces : Publish(w)
  BY <1>5, Elsewhere DEF Publish, sockets, history
<1>6. CASE Stop
  BY <1>6, Restarting DEF Stop
<1> QED  BY <1>1, <1>2, <1>3, <1>4, <1>5, <1>6 DEF Next

LEMMA Initially == Init => HubInv
<1> SUFFICES ASSUME Init PROVE HubInv
  OBVIOUS
<1>1. Unused \in Conn /\ Unused.timers = FALSE /\ Unused.phase = "new"
  BY DEF Unused, Conn
<1>2. keys \in [Keys -> Row]
  <2>1. NotCreated \in Row
    BY DEF NotCreated, Row
  <2>2. \A b \in Bodies : create(b) \in Row
    <3> TAKE b \in Bodies
    <3>1. b.allowedIps \in {Null} \cup SUBSET SUBSET Addresses /\ b.expires \in BOOLEAN
      BY DEF Bodies
    <3> QED  BY <3>1 DEF create, NotCreated, Row
  <2> QED  BY <2>1, <2>2, LiveAssumption DEF Init
<1>3. pendingAuth = Cardinality(Pending) /\ pendingAuth <= MaxPending
  <2>1. Pending = {}
    BY <1>1 DEF Init, Pending
  <2> QED  BY <2>1, FS_EmptySet, LiveAssumption DEF Init
<1>4. \A w \in Workspaces : Cardinality(hub[w]) <= MaxPerWorkspace
  BY FS_EmptySet, LiveAssumption DEF Init
<1> QED  BY <1>1, <1>2, <1>3, <1>4 DEF Init, HubInv, HubTypes, PhaseSound, InHub

\* Whatever the order of admissions, timeouts, late answers, vanishing clients and deaths:
\* the count of the lookups is right, no workspace has more sockets than its limit, and the
\* hub holds just the sockets whose key was good (ws/hub.ts).
THEOREM PlacesAreHeld == Spec => []PlacesHeld
<1>1. Spec => []HubInv
  BY Initially, Inductive, PTL DEF Spec
<1> QED  BY <1>1, Enough, PTL

-----------------------------------------------------------------------------
(* The events of a workspace: what Own selects from the stream.            *)

\* The recursive function that Own is read off, for any stream.
UpTo(str, from, to, w) ==
  LET upTo[e \in from..to] == IF e = from THEN <<>>
                              ELSE IF str[e] = w THEN Append(upTo[e - 1], e)
                              ELSE upTo[e - 1]
  IN upTo

LEMMA LeastOf == ASSUME NEW T, T \subseteq Nat, T # {} PROVE \E m \in T : \A n \in T : ~(n < m)
<1>1. PICK m \in T : \A n \in T : <<n, m>> \notin OpToRel(<, Nat)
  BY NatLessThanWellFounded, WFMin
<1>2. \A n \in T : ~(n < m)
  BY <1>1 DEF OpToRel
<1> QED BY <1>2

\* A set of naturals with from that is closed under successors below to.
LEMMA Climb ==
  ASSUME NEW from \in Nat, NEW to \in Nat, NEW T, from \in T,
         \A e \in from..to : e \in T /\ e < to => e + 1 \in T
  PROVE  from..to \subseteq T
<1> SUFFICES ASSUME ~(from..to \subseteq T) PROVE FALSE
  OBVIOUS
<1> DEFINE B == from..to \ T
<1>1. PICK m \in B : \A n \in B : ~(n < m)
  <2>1. B \subseteq Nat /\ B # {}
    OBVIOUS
  <2> HIDE DEF B
  <2> QED BY <2>1, LeastOf
<1>2. m - 1 \in from..to /\ m - 1 < to /\ m - 1 < m
  BY <1>1
<1>3. m - 1 \in T
  BY <1>1, <1>2
<1>4. m - 1 + 1 \in T
  BY <1>2, <1>3
<1>5. m - 1 + 1 = m
  BY <1>1
<1>6. m \notin T
  BY <1>1, Zenon
<1> HIDE DEF B
<1> QED BY <1>4, <1>5, <1>6

Eqn(g, str, from, to, w) ==
  g = [e \in from..to |-> IF e = from THEN <<>>
                          ELSE IF str[e] = w THEN Append(g[e - 1], e) ELSE g[e - 1]]


LEMMA UpToDefined ==
  ASSUME NEW str, NEW from \in Nat, NEW to \in Nat, NEW w, from <= to
  PROVE  Eqn(UpTo(str, from, to, w), str, from, to, w)
<1> DEFINE Step(g, e) == IF e = from THEN <<>> ELSE IF str[e] = w THEN Append(g[e - 1], e) ELSE g[e - 1]
           T == {n \in from..to : \E g : g = [e \in from..n |-> Step(g, e)]}
<1>1. from \in T
  <2> DEFINE g == [e \in from..from |-> <<>>]
  <2>1. g = [e \in from..from |-> Step(g, e)]
    OBVIOUS
  <2> HIDE DEF g
  <2> QED BY <2>1
<1>2. ASSUME NEW n \in from..to, n \in T, n < to
      PROVE  n + 1 \in T
  <2>1. PICK g : g = [e \in from..n |-> Step(g, e)]
    BY <1>2
  <2> DEFINE h == [e \in from..(n + 1) |-> IF e <= n THEN g[e] ELSE Step(g, e)]
  <2>2. ASSUME NEW e \in from..(n + 1) PROVE h[e] = Step(h, e)
    <3>1. e - 1 \in from..n => h[e - 1] = g[e - 1]
      OBVIOUS
    <3>2. e # from => e - 1 \in from..n
      OBVIOUS
    <3>3. Step(h, e) = Step(g, e)
      BY <3>1, <3>2
    <3>4. h[e] = IF e <= n THEN g[e] ELSE Step(g, e)
      OBVIOUS
    <3> HIDE DEF h, Step
    <3>5. e <= n => g[e] = Step(g, e)
      BY <2>1
    <3> QED BY <3>3, <3>4, <3>5
  <2>3. h = [e \in from..(n + 1) |-> Step(h, e)]
    <3>1. h = [e \in from..(n + 1) |-> h[e]]
      OBVIOUS
    <3> HIDE DEF h, Step
    <3> QED BY <3>1, <2>2
  <2> HIDE DEF h, Step
  <2> QED BY <2>3, <1>2
<1>3. to \in T
  <2>1. \A e \in from..to : e \in T /\ e < to => e + 1 \in T
    BY <1>2
  <2> HIDE DEF T
  <2>2. from..to \subseteq T
    BY <1>1, <2>1, Climb, Zenon
  <2>3. to \in from..to
    OBVIOUS
  <2> QED BY <2>2, <2>3, Zenon
<1> QED BY <1>3, ZenonT(30) DEF UpTo, Eqn

LEMMA UpToStart ==
  ASSUME NEW str, NEW from \in Nat, NEW to \in Nat, NEW w, from <= to
  PROVE  UpTo(str, from, to, w)[from] = <<>>
<1> DEFINE u == UpTo(str, from, to, w)
<1>1. Eqn(u, str, from, to, w)
  BY UpToDefined
<1> HIDE DEF u
<1>2. u[from] = <<>>
  BY <1>1 DEF Eqn
<1> QED  BY <1>2 DEF u

LEMMA UpToNext ==
  ASSUME NEW str, NEW from \in Nat, NEW to \in Nat, NEW w, from <= to,
         NEW e \in from..to, e < to
  PROVE  UpTo(str, from, to, w)[e + 1]
           = IF str[e + 1] = w THEN Append(UpTo(str, from, to, w)[e], e + 1)
             ELSE UpTo(str, from, to, w)[e]
<1> DEFINE u == UpTo(str, from, to, w)
<1>1. Eqn(u, str, from, to, w)
  BY UpToDefined
<1> HIDE DEF u
<1>2. e + 1 \in from..to /\ e + 1 # from /\ (e + 1) - 1 = e
  OBVIOUS
<1>3. u[e + 1] = IF str[e + 1] = w THEN Append(u[(e + 1) - 1], e + 1) ELSE u[(e + 1) - 1]
  BY <1>1, <1>2 DEF Eqn
<1>4. u[e + 1] = IF str[e + 1] = w THEN Append(u[e], e + 1) ELSE u[e]
  BY <1>2, <1>3
<1> QED  BY <1>4 DEF u

LEMMA UpToType ==
  ASSUME NEW str, NEW from \in Nat, NEW to \in Nat, NEW w, from <= to
  PROVE  \A e \in from..to : UpTo(str, from, to, w)[e] \in Seq(Nat)
<1> DEFINE u == UpTo(str, from, to, w)
           T == {e \in from..to : u[e] \in Seq(Nat)}
<1>1. /\ u[from] = <<>>
      /\ \A e \in from..to : e < to =>
           u[e + 1] = IF str[e + 1] = w THEN Append(u[e], e + 1) ELSE u[e]
  BY UpToStart, UpToNext
<1> HIDE DEF u
<1>2. from \in T
  <2>1. from \in from..to /\ <<>> \in Seq(Nat)
    OBVIOUS
  <2> QED BY <1>1, <2>1
<1>3. ASSUME NEW e \in from..to, e \in T, e < to PROVE e + 1 \in T
  <2>1. e + 1 \in from..to /\ e + 1 \in Nat /\ u[e] \in Seq(Nat)
    BY <1>3
  <2>2. Append(u[e], e + 1) \in Seq(Nat)
    BY <2>1, AppendProperties
  <2>3. u[e + 1] \in Seq(Nat)
    BY <1>1, <1>3, <2>1, <2>2, Zenon
  <2> QED BY <2>1, <2>3
<1>4. from..to \subseteq T
  <2>1. \A e \in from..to : e \in T /\ e < to => e + 1 \in T
    BY <1>3
  <2> HIDE DEF T
  <2> QED BY <1>2, <2>1, Climb
<1> QED BY <1>4 DEF u

\* What a place before to reads is the same, if the streams agree up to there.
LEMMA UpToAgrees ==
  ASSUME NEW str, NEW more, NEW from \in Nat, NEW to \in Nat, NEW mid \in from..to, NEW w,
         \A e \in (from + 1)..mid : str[e] = more[e]
  PROVE  UpTo(str, from, mid, w)[mid] = UpTo(more, from, to, w)[mid]
<1> DEFINE u == UpTo(str, from, mid, w)
           v == UpTo(more, from, to, w)
           T == {e \in from..mid : u[e] = v[e]}
<1>0. mid \in Nat /\ from <= mid /\ mid <= to /\ from <= to
  OBVIOUS
<1>1. /\ u[from] = <<>>
      /\ \A e \in from..mid : e < mid =>
           u[e + 1] = IF str[e + 1] = w THEN Append(u[e], e + 1) ELSE u[e]
  BY <1>0, UpToStart, UpToNext
<1>2. /\ v[from] = <<>>
      /\ \A e \in from..to : e < to =>
           v[e + 1] = IF more[e + 1] = w THEN Append(v[e], e + 1) ELSE v[e]
  BY <1>0, UpToStart, UpToNext
<1> HIDE DEF u, v
<1>3. from \in T
  BY <1>1, <1>2
<1>4. ASSUME NEW e \in from..mid, e \in T, e < mid PROVE e + 1 \in T
  <2>1. str[e + 1] = more[e + 1] /\ u[e] = v[e] /\ e + 1 \in from..mid /\ e \in from..to /\ e < to
    BY <1>4
  <2> QED BY <1>1, <1>2, <2>1
<1>5. from..mid \subseteq T
  <2>1. \A e \in from..mid : e \in T /\ e < mid => e + 1 \in T
    BY <1>4
  <2> HIDE DEF T
  <2> QED BY <1>0, <1>3, <2>1, Climb
<1> QED BY <1>5 DEF u, v

LEMMA AppendToJoined ==
  ASSUME NEW s \in Seq(Nat), NEW t \in Seq(Nat), NEW x \in Nat
  PROVE  s \o Append(t, x) = Append(s \o t, x)
OBVIOUS

LEMMA UpToJoined ==
  ASSUME NEW str, NEW from \in Nat, NEW to \in Nat, NEW mid \in from..to, NEW w
  PROVE  UpTo(str, from, to, w)[to] = UpTo(str, from, mid, w)[mid] \o UpTo(str, mid, to, w)[to]
<1> DEFINE u == UpTo(str, from, to, w)
           v == UpTo(str, mid, to, w)
           a == UpTo(str, from, mid, w)[mid]
           T == {e \in mid..to : u[e] = a \o v[e]}
<1>0. mid \in Nat /\ from <= mid /\ mid <= to /\ from <= to
  OBVIOUS
<1>1. /\ u[from] = <<>>
      /\ \A e \in from..to : e < to =>
           u[e + 1] = IF str[e + 1] = w THEN Append(u[e], e + 1) ELSE u[e]
  BY <1>0, UpToStart, UpToNext
<1>2. /\ v[mid] = <<>>
      /\ \A e \in mid..to : e < to =>
           v[e + 1] = IF str[e + 1] = w THEN Append(v[e], e + 1) ELSE v[e]
  BY <1>0, UpToStart, UpToNext
<1>3. a = u[mid] /\ a \in Seq(Nat) /\ \A e \in mid..to : v[e] \in Seq(Nat)
  <2>1. a = u[mid]
    BY <1>0, UpToAgrees
  <2>2. mid \in from..mid
    BY <1>0
  <2>3. a \in Seq(Nat)
    BY <1>0, <2>2, UpToType
  <2>4. \A e \in mid..to : v[e] \in Seq(Nat)
    BY <1>0, UpToType
  <2> HIDE DEF a, u, v
  <2> QED BY <2>1, <2>3, <2>4
<1> HIDE DEF u, v, a
<1>4. mid \in T
  <2>1. mid \in mid..to /\ a \o <<>> = a
    BY <1>0, <1>3, ConcatEmptySeq
  <2> QED BY <1>2, <1>3, <2>1
<1>5. ASSUME NEW e \in mid..to, e \in T, e < to PROVE e + 1 \in T
  <2>1. u[e] = a \o v[e] /\ e \in from..to /\ e + 1 \in Nat /\ e + 1 \in mid..to
    BY <1>0, <1>5
  <2>4. v[e] \in Seq(Nat) /\ a \in Seq(Nat)
    BY <1>3
  <2>2. CASE str[e + 1] = w
    <3>1. u[e + 1] = Append(u[e], e + 1) /\ v[e + 1] = Append(v[e], e + 1)
      BY <1>1, <1>2, <1>5, <2>1, <2>2
    <3>2. a \o Append(v[e], e + 1) = Append(a \o v[e], e + 1)
      BY <2>1, <2>4, AppendToJoined
    <3> QED BY <2>1, <3>1, <3>2
  <2>3. CASE str[e + 1] # w
    BY <1>1, <1>2, <1>5, <2>1, <2>3
  <2> QED BY <2>2, <2>3
<1>6. mid..to \subseteq T
  <2>1. \A e \in mid..to : e \in T /\ e < to => e + 1 \in T
    BY <1>5
  <2> HIDE DEF T
  <2> QED BY <1>0, <1>4, <2>1, Climb
<1>7. u[to] = a \o v[to]
  BY <1>0, <1>6
<1> QED BY <1>7 DEF u, v, a


\* What Own selects, of any stream.
Selected(str, from, to, w) == UpTo(str, from, to, w)[to]

LEMMA OwnIsSelected == \A from, to, w : Own(from, to, w) = Selected(stream, from, to, w)
BY DEF Own, Selected, UpTo

LEMMA SelectedNone ==
  ASSUME NEW str, NEW from \in Nat, NEW w
  PROVE  Selected(str, from, from, w) = <<>>
<1>1. from <= from
  OBVIOUS
<1> QED  BY <1>1, UpToStart DEF Selected

LEMMA SelectedType ==
  ASSUME NEW str, NEW from \in Nat, NEW to \in Nat, NEW w, from <= to
  PROVE  Selected(str, from, to, w) \in Seq(Nat)
<1>1. to \in from..to
  OBVIOUS
<1> QED  BY <1>1, UpToType DEF Selected

\* The same for all that is selected up to one place.
LEMMA SelectedParts ==
  ASSUME NEW str, NEW mid \in Nat, NEW to \in Nat, mid <= to
  PROVE  \A w : \A j \in Nat :
           j <= mid => Selected(str, j, to, w) = Selected(str, j, mid, w) \o Selected(str, mid, to, w)
<1> TAKE w
<1> TAKE j \in Nat
<1> HAVE j <= mid
<1>1. mid \in j..to
  OBVIOUS
<1> QED  BY <1>1, UpToJoined, ZenonT(30) DEF Selected

\* What was published stays where it is.
LEMMA SelectedStays ==
  ASSUME NEW str, NEW more, NEW from \in Nat, NEW to \in Nat, NEW w, from <= to,
         \A e \in (from + 1)..to : str[e] = more[e]
  PROVE  Selected(str, from, to, w) = Selected(more, from, to, w)
<1>1. to \in from..to
  OBVIOUS
<1>2. UpTo(str, from, to, w)[to] = UpTo(more, from, to, w)[to]
  BY <1>1, UpToAgrees, Z3
<1> QED BY <1>2 DEF Selected

-----------------------------------------------------------------------------
(* What the sockets are sent.                                              *)

Live(c) == c.phase = "in" /\ c.net \in {"open", "silent"}

\* The last event read, and what a socket that joined at j is owed by then.
Seen(last) == IF last = Dollar THEN 0 ELSE last
Owed(str, last, j, b, w) ==
  IF last = Dollar THEN <<>> ELSE Selected(str, IF j > b THEN j ELSE b, last, w)

ReaderTypes ==
  /\ stream \in Seq(Workspaces)
  /\ reader \in [at: {"next", "waiting", "backoff"}, last: Nat \cup {Dollar}, from: Nat]
  /\ base \in Nat /\ joined \in [Sockets -> Nat] /\ sent \in [Sockets -> Seq(Nat)]

\* The read in progress starts where the last one ended.
ReaderSound ==
  /\ reader.at = "waiting" => reader.from <= Len(stream)
  /\ reader.last # Dollar =>
       /\ reader.last <= Len(stream) /\ base <= reader.last
       /\ reader.at = "waiting" => reader.from = reader.last
  /\ \A s \in Sockets : joined[s] <= Seen(reader.last)

\* Nothing was sent to a socket before it was admitted; a live one has all it is owed.
SentSound ==
  \A s \in Sockets :
    /\ conn[s].phase # "in" => sent[s] = <<>>
    /\ Live(conn[s]) =>
         sent[s] = Owed(stream, reader.last, joined[s], base, WorkspaceOf[conn[s].key])

SentInv == ReaderTypes /\ ReaderSound /\ SentSound

LEMMA SentEnough == SentInv => NothingMissed
BY OwnIsSelected DEF SentInv, SentSound, NothingMissed, Owed, Live

\* One socket is left alone.
LEMMA Untouched ==
  ASSUME SentInv, UNCHANGED <<stream, reader, base>>, NEW t \in Sockets,
         conn'[t] = conn[t], sent'[t] = sent[t], joined'[t] = joined[t]
  PROVE  /\ conn'[t].phase # "in" => sent'[t] = <<>>
         /\ Live(conn'[t]) =>
              sent'[t] = Owed(stream', reader'.last, joined'[t], base', WorkspaceOf[conn'[t].key])
         /\ joined'[t] <= Seen(reader'.last)
BY DEF SentInv, SentSound, ReaderSound

\* A socket changes that is not in the hub afterwards, or that was in it under the same key
\* and, if it is live, was live.
LEMMA SocketOnly ==
  ASSUME HubInv, SentInv, NEW s \in Sockets, NEW c \in Conn, Becomes(s, c), UNCHANGED events,
         joined' = joined,
         \/ c.phase # "in" /\ conn[s].phase # "in"
         \/ c.phase = "in" /\ conn[s].phase = "in" /\ c.key = conn[s].key /\ (Live(c) => Live(conn[s]))
  PROVE  SentInv'
<1>1. UNCHANGED <<stream, reader, base, sent>>
  BY DEF events
<1>2. \A t \in Sockets : conn'[t] = IF t = s THEN c ELSE conn[t]
  BY DEF Becomes, HubInv, HubTypes
<1>3. ReaderTypes' /\ ReaderSound'
  BY <1>1 DEF SentInv, ReaderTypes, ReaderSound
<1>4. SentSound'
  <2> SUFFICES ASSUME NEW t \in Sockets
               PROVE  /\ conn'[t].phase # "in" => sent'[t] = <<>>
                      /\ Live(conn'[t]) =>
                           sent'[t] = Owed(stream', reader'.last, joined'[t], base', WorkspaceOf[conn'[t].key])
    BY DEF SentSound
  <2>1. /\ conn[t].phase # "in" => sent[t] = <<>>
        /\ Live(conn[t]) =>
             sent[t] = Owed(stream, reader.last, joined[t], base, WorkspaceOf[conn[t].key])
    BY DEF SentInv, SentSound
  <2>2. CASE t = s
    <3>1. Live(c) => c.phase = "in"
      BY DEF Live
    <3> QED BY <1>1, <1>2, <2>1, <2>2, <3>1
  <2>3. CASE t # s
    BY <1>1, <1>2, <2>1, <2>3
  <2> QED BY <2>2, <2>3
<1> QED BY <1>3, <1>4 DEF SentInv

\* A socket leaves the hub, or was never in it.
LEMMA SocketGone == ASSUME HubInv, SentInv, NEW s \in Sockets, Gone(s) PROVE SentInv'
<1>1. UNCHANGED <<stream, reader, base>>
  BY DEF Gone
<1>2. CASE conn[s].phase \in {"pending", "late"}
  <2> DEFINE c == [conn[s] EXCEPT !.net = "closed"]
  <2>1. c \in Conn /\ c.phase = conn[s].phase
    BY Conns DEF Conn
  <2>2. Becomes(s, c) /\ UNCHANGED <<sent, joined>>
    BY <1>2 DEF Gone
  <2> HIDE DEF c
  <2> QED BY <1>1, <1>2, <2>1, <2>2, SocketOnly DEF events
<1>3. CASE conn[s].phase \notin {"pending", "late"}
  <2>1. /\ Becomes(s, Dead) /\ sent' = [sent EXCEPT ![s] = <<>>]
        /\ joined' = [joined EXCEPT ![s] = 0]
    BY <1>3 DEF Gone
  <2>2. \A t \in Sockets : /\ conn'[t] = IF t = s THEN Dead ELSE conn[t]
                           /\ sent'[t] = IF t = s THEN <<>> ELSE sent[t]
                           /\ joined'[t] = IF t = s THEN 0 ELSE joined[t]
    BY <2>1 DEF Becomes, HubInv, HubTypes, SentInv, ReaderTypes
  <2>3. Dead.phase # "in"
    BY Conns
  <2>4. ReaderTypes'
    BY <1>1, <2>1, EmptySeq DEF SentInv, ReaderTypes
  <2>5. 0 <= Seen(reader'.last)
    BY <1>1 DEF SentInv, ReaderTypes, Seen
  <2>6. ReaderSound'
    BY <1>1, <2>2, <2>5 DEF SentInv, ReaderSound
  <2>7. SentSound'
    BY <1>1, <2>2, <2>3 DEF SentInv, SentSound, Live
  <2> QED BY <2>4, <2>6, <2>7 DEF SentInv
<1> QED BY <1>2, <1>3

\* An admission: nothing was read since, so nothing is owed.
LEMMA Admission == ASSUME HubInv, SentInv, NEW s \in Sockets, Verified(s) PROVE SentInv'
<1>1. conn[s].phase = "pending" /\ UNCHANGED <<stream, reader, base, sent>>
  BY DEF Verified, events
<1>2. CASE Becomes(s, Rejected(s)) /\ UNCHANGED joined
  <2>1. Rejected(s) \in Conn /\ Rejected(s).phase # "in"
    BY Conns
  <2> QED BY <1>1, <1>2, <2>1, SocketOnly DEF events
<1>3. CASE Becomes(s, Admitted(s)) /\ joined' = [joined EXCEPT ![s] = Seen(reader.last)]
  <2> DEFINE j == Seen(reader.last)
  <2>1. \A t \in Sockets : /\ conn'[t] = IF t = s THEN Admitted(s) ELSE conn[t]
                           /\ joined'[t] = IF t = s THEN j ELSE joined[t]
    BY <1>3 DEF Becomes, HubInv, HubTypes, SentInv, ReaderTypes
  <2>2. j \in Nat /\ j <= j
    BY DEF SentInv, ReaderTypes, Seen
  <2>3. Admitted(s).phase = "in" /\ sent[s] = <<>>
    <3>1. conn[s] \in Conn
      BY Conns
    <3> QED BY <1>1, <3>1 DEF Admitted, Conn, SentInv, SentSound
  <2>4. ReaderTypes'
    BY <1>1, <1>3, <2>2 DEF SentInv, ReaderTypes
  <2>5. ReaderSound'
    BY <1>1, <2>1, <2>2 DEF SentInv, ReaderSound
  <2>6. \A w : Owed(stream, reader.last, j, base, w) = <<>>
    <3> TAKE w
    <3>1. CASE reader.last = Dollar
      BY <3>1 DEF Owed
    <3>2. CASE reader.last # Dollar
      <4>1. j = reader.last /\ base <= j /\ base \in Nat /\ (IF j > base THEN j ELSE base) = j
        BY <2>2, <3>2 DEF Seen, SentInv, ReaderSound, ReaderTypes
      <4>2. Selected(stream, j, j, w) = <<>>
        BY <2>2, SelectedNone
      <4> QED BY <3>2, <4>1, <4>2 DEF Owed
    <3> QED BY <3>1, <3>2
  <2>7. SentSound'
    <3> SUFFICES ASSUME NEW t \in Sockets
                 PROVE  /\ conn'[t].phase # "in" => sent'[t] = <<>>
                        /\ Live(conn'[t]) =>
                             sent'[t] = Owed(stream', reader'.last, joined'[t], base', WorkspaceOf[conn'[t].key])
      BY DEF SentSound
    <3>1. CASE t = s
      BY <1>1, <2>1, <2>3, <2>6, <3>1
    <3>2. CASE t # s
      BY <1>1, <2>1, <3>2, Untouched
    <3> QED BY <3>1, <3>2
  <2> QED BY <2>4, <2>5, <2>7 DEF SentInv
<1> QED BY <1>2, <1>3 DEF Verified, Seen

LEMMA Arrival == ASSUME HubInv, SentInv, NEW s \in Sockets, NEW k \in Keys, Connect(s, k) PROVE SentInv'
<1> DEFINE fresh == [Unused EXCEPT !.net = "open", !.key = k]
           full  == [fresh EXCEPT !.net = "closing", !.phase = "rejected"]
           one   == [fresh EXCEPT !.phase = "pending"]
<1>1. /\ conn[s] = Unused /\ UNCHANGED events /\ joined' = joined
      /\ Becomes(s, full) \/ Becomes(s, one)
  BY DEF Connect, history
<1>2. full \in Conn /\ full.phase # "in" /\ one \in Conn /\ one.phase # "in"
  BY DEF Unused, Conn
<1>3. conn[s].phase # "in"
  BY <1>1 DEF Unused
<1> HIDE DEF full, one
<1> QED BY <1>1, <1>2, <1>3, SocketOnly

LEMMA Waiting ==
  ASSUME HubInv, SentInv, NEW s \in Sockets, AuthTimeout(s) \/ LateAnswer(s)
  PROVE  SentInv'
<1> DEFINE c == [Rejected(s) EXCEPT !.phase = "late"]
<1>1. /\ conn[s].phase # "in" /\ UNCHANGED events /\ joined' = joined
      /\ Becomes(s, c) \/ Becomes(s, Rejected(s))
  BY DEF AuthTimeout, LateAnswer, history
<1>2. Rejected(s) \in Conn /\ Rejected(s).phase # "in"
  BY Conns
<1>3. c \in Conn /\ c.phase # "in"
  BY <1>2 DEF Conn
<1> HIDE DEF c
<1> QED BY <1>1, <1>2, <1>3, SocketOnly

LEMMA Answering ==
  ASSUME HubInv, SentInv, NEW s \in Sockets,
         Heartbeat(s) \/ Pong(s) \/ ClientVanishes(s) \/ Revalidate(s)
  PROVE  SentInv'
<1>1. conn[s] \in Conn
  BY Conns
<1>2. CASE terminate(s)
  BY <1>2, SocketGone DEF terminate
<1>3. ASSUME NEW c \in Conn, Becomes(s, c), UNCHANGED <<events, history>>,
             c.phase = conn[s].phase, c.key = conn[s].key, Live(c) => Live(conn[s])
      PROVE  SentInv'
  BY <1>3, SocketOnly DEF history
<1>4. ASSUME NEW b \in BOOLEAN, Becomes(s, [conn[s] EXCEPT !.alive = b]),
             UNCHANGED <<events, history>>
      PROVE  SentInv'
  <2> DEFINE c == [conn[s] EXCEPT !.alive = b]
  <2>1. c \in Conn /\ c.phase = conn[s].phase /\ c.key = conn[s].key /\ c.net = conn[s].net
    BY <1>1 DEF Conn
  <2>2. Becomes(s, c)
    BY <1>4
  <2> HIDE DEF c
  <2>3. Live(c) => Live(conn[s])
    BY <2>1 DEF Live
  <2> QED BY <1>3, <1>4, <2>1, <2>2, <2>3
<1>5. CASE ClientVanishes(s)
  <2> DEFINE c == [conn[s] EXCEPT !.net = "silent"]
  <2>1. c \in Conn /\ c.phase = conn[s].phase /\ c.key = conn[s].key
    BY <1>1 DEF Conn
  <2>2. Becomes(s, c) /\ conn[s].net = "open" /\ UNCHANGED <<events, history>>
    BY <1>5 DEF ClientVanishes
  <2> HIDE DEF c
  <2>3. Live(c) => Live(conn[s])
    BY <2>1, <2>2 DEF Live
  <2> QED BY <1>3, <2>1, <2>2, <2>3
<1>6. CASE Heartbeat(s)
  BY <1>2, <1>4, <1>6 DEF Heartbeat
<1>7. CASE Pong(s)
  BY <1>4, <1>7 DEF Pong
<1>8. CASE Revalidate(s)
  BY <1>2, <1>8 DEF Revalidate
<1> QED BY <1>5, <1>6, <1>7, <1>8

LEMMA AfterRestart == ASSUME HubInv, SentInv, Restart PROVE SentInv'
<1>1. /\ conn' = [s \in Sockets |-> IF conn[s] = Unused THEN Unused ELSE Dead]
      /\ reader' = Start /\ base' = 0 /\ sent' = [s \in Sockets |-> <<>>]
      /\ joined' = [s \in Sockets |-> 0] /\ stream' = stream
  BY DEF Restart
<1>2. \A s \in Sockets : conn'[s].phase # "in"
  BY <1>1 DEF Unused, Dead
<1>3. ReaderTypes'
  BY <1>1, EmptySeq DEF SentInv, ReaderTypes, Start
<1>4. ReaderSound'
  BY <1>1 DEF ReaderSound, Start, Seen
<1>5. SentSound'
  BY <1>1, <1>2 DEF SentSound, Live
<1> QED BY <1>3, <1>4, <1>5 DEF SentInv

LEMMA SentElsewhere ==
  ASSUME SentInv, UNCHANGED <<conn, stream, sent, joined, base>>,
         \/ reader' = reader
         \/ Block \/ ReadNothing \/ ReadFails \/ Resume
  PROVE  SentInv'
<1>1. reader'.last = reader.last /\ reader' \in [at: {"next", "waiting", "backoff"}, last: Nat \cup {Dollar}, from: Nat]
  <2>1. CASE reader' = reader
    BY <2>1 DEF SentInv, ReaderTypes
  <2>2. CASE Block
    <3>1. Len(stream) \in Nat
      BY LenProperties DEF SentInv, ReaderTypes
    <3> QED BY <2>2, <3>1 DEF Block, SentInv, ReaderTypes
  <2>3. CASE ReadNothing \/ ReadFails \/ Resume
    BY <2>3 DEF SentInv, ReaderTypes, ReadNothing, ReadFails, Resume
  <2> QED BY <2>1, <2>2, <2>3
<1>2. reader'.at = "waiting" =>
        /\ reader'.from <= Len(stream)
        /\ reader.last # Dollar => reader'.from = reader.last
  <2>1. CASE reader' = reader
    BY <2>1 DEF SentInv, ReaderSound
  <2>2. CASE Block
    <3>1. reader'.from = IF reader.last = Dollar THEN Len(stream) ELSE reader.last
      BY <2>2 DEF Block, SentInv, ReaderTypes
    <3>2. Len(stream) \in Nat
      BY LenProperties DEF SentInv, ReaderTypes
    <3> QED BY <3>1, <3>2 DEF SentInv, ReaderSound
  <2>3. CASE ReadNothing \/ ReadFails \/ Resume
    BY <2>3 DEF SentInv, ReaderTypes, ReadNothing, ReadFails, Resume
  <2> QED BY <2>1, <2>2, <2>3
<1>3. ReaderTypes' /\ SentSound'
  BY <1>1 DEF SentInv, ReaderTypes, SentSound
<1>4. ReaderSound'
  BY <1>1, <1>2 DEF SentInv, ReaderSound
<1> QED BY <1>3, <1>4 DEF SentInv

LEMMA Published == ASSUME HubInv, SentInv, NEW w \in Workspaces, Publish(w) PROVE SentInv'
<1>1. stream' = Append(stream, w) /\ UNCHANGED <<conn, reader, sent, joined, base>>
  BY DEF Publish, sockets, history
<1>2. stream \in Seq(Workspaces) /\ Len(stream) \in Nat
  BY LenProperties DEF SentInv, ReaderTypes
<1>3. /\ stream' \in Seq(Workspaces) /\ Len(stream') = Len(stream) + 1
      /\ \A e \in 1..Len(stream) : stream'[e] = stream[e]
  BY <1>1, <1>2, AppendProperties
<1>4. ReaderTypes'
  BY <1>1, <1>3 DEF SentInv, ReaderTypes
<1>5. ReaderSound'
  <2>1. \A n \in Nat : n <= Len(stream) => n <= Len(stream')
    BY <1>2, <1>3
  <2> QED BY <1>1, <2>1 DEF SentInv, ReaderSound, ReaderTypes
<1>6. \A v : \A t \in Sockets :
        Owed(stream', reader.last, joined[t], base, v) = Owed(stream, reader.last, joined[t], base, v)
  <2> TAKE v
  <2> TAKE t \in Sockets
  <2> DEFINE j == IF joined[t] > base THEN joined[t] ELSE base
  <2>1. CASE reader.last = Dollar
    BY <2>1 DEF Owed
  <2>2. CASE reader.last # Dollar
    <3>1. /\ joined[t] \in Nat /\ base \in Nat /\ reader.last \in Nat
          /\ joined[t] <= reader.last /\ base <= reader.last /\ reader.last <= Len(stream)
      BY <2>2 DEF SentInv, ReaderTypes, ReaderSound, Seen
    <3>2. j \in Nat /\ j <= reader.last
      BY <3>1
    <3> HIDE DEF j
    <3>3. \A e \in (j + 1)..reader.last : stream'[e] = stream[e]
      BY <1>2, <1>3, <3>1, <3>2
    <3>4. Selected(stream', j, reader.last, v) = Selected(stream, j, reader.last, v)
      BY <3>1, <3>2, <3>3, SelectedStays, Z3
    <3> QED BY <2>2, <3>4 DEF Owed, j
  <2> QED BY <2>1, <2>2
<1>7. SentSound'
  BY <1>1, <1>6 DEF SentInv, SentSound
<1> QED BY <1>4, <1>5, <1>7 DEF SentInv

\* The broadcaster reads what follows: each socket in the hub is sent its part of it.
LEMMA Delivered == ASSUME HubInv, SentInv, NEW to \in Positions, Deliver(to) PROVE SentInv'
<1> DEFINE from == reader.from
<1>1. /\ reader.at = "waiting" /\ to \in (from + 1)..Len(stream)
      /\ base' = IF reader.last = Dollar THEN from ELSE base
      /\ reader' = [reader EXCEPT !.at = "next", !.last = to]
      /\ UNCHANGED <<stream, conn, hub, joined>>
  BY DEF Deliver, sockets, history
<1>2. /\ from \in Nat /\ Len(stream) \in Nat /\ to \in Nat /\ from < to /\ to <= Len(stream)
      /\ to # Dollar /\ base \in Nat
  <2>1. from \in Nat /\ Len(stream) \in Nat /\ base \in Nat
    BY LenProperties DEF SentInv, ReaderTypes
  <2> QED BY <1>1, <2>1, LiveAssumption
<1>3. /\ reader'.last = to /\ reader'.at = "next"
      /\ reader' \in [at: {"next", "waiting", "backoff"}, last: Nat \cup {Dollar}, from: Nat]
  BY <1>1, <1>2 DEF SentInv, ReaderTypes
<1>4. base' \in Nat /\ base' <= from
  <2>1. CASE reader.last = Dollar
    BY <1>1, <1>2, <2>1
  <2>2. CASE reader.last # Dollar
    BY <1>1, <1>2, <2>2 DEF SentInv, ReaderSound
  <2> QED BY <2>1, <2>2
<1>5. \A t \in Sockets : joined[t] \in Nat /\ joined[t] <= from
  BY <1>1, <1>2, SMTT(30) DEF SentInv, ReaderTypes, ReaderSound, Seen
<1>6. ASSUME NEW t \in Sockets
      PROVE  /\ conn[t].phase # "in" => sent'[t] = sent[t]
             /\ Live(conn[t]) =>
                  sent'[t] = sent[t] \o Selected(stream, from, to, WorkspaceOf[conn[t].key])
             /\ sent'[t] = sent[t] \/ \E w : sent'[t] = sent[t] \o Selected(stream, from, to, w)
  <2> DEFINE places == {w \in Workspaces : t \in hub[w]}
  <2>1. sent'[t] = IF conn[t].net \notin {"open", "silent"} \/ places = {} THEN sent[t]
                   ELSE sent[t] \o Own(from, to, CHOOSE w \in places : TRUE)
    BY DEF Deliver, broadcast
  <2>2. conn[t] \in Conn /\ PhaseSound(conn[t], t \in early)
    BY Conns
  <2>3. \A w \in Workspaces : t \in hub[w] <=> conn[t].timers /\ WorkspaceOf[conn[t].key] = w
    BY DEF HubInv, InHub
  <2>4. conn[t].phase # "in" => places = {}
    BY <2>2, <2>3 DEF PhaseSound
  <2>5. ASSUME Live(conn[t])
        PROVE  sent'[t] = sent[t] \o Selected(stream, from, to, WorkspaceOf[conn[t].key])
    <3>1. /\ conn[t].timers /\ WorkspaceOf[conn[t].key] \in Workspaces
          /\ conn[t].net \in {"open", "silent"}
      BY <2>2, <2>5, LiveAssumption DEF Live, PhaseSound
    <3>2. places = {WorkspaceOf[conn[t].key]}
      BY <2>3, <3>1
    <3> HIDE DEF places
    <3>3. (CHOOSE w \in places : TRUE) = WorkspaceOf[conn[t].key]
      BY <3>2
    <3> QED BY <2>1, <3>1, <3>2, <3>3, OwnIsSelected
  <2>6. sent'[t] = sent[t] \/ \E w : sent'[t] = sent[t] \o Selected(stream, from, to, w)
    <3> HIDE DEF places
    <3> QED BY <2>1, OwnIsSelected
  <2> QED BY <2>1, <2>4, <2>5, <2>6
<1>7. \A w : Selected(stream, from, to, w) \in Seq(Nat)
  <2>1. from <= to
    BY <1>2
  <2> QED BY <1>2, <2>1, SelectedType
<1>8. ReaderTypes'
  <2>1. sent' \in [Sockets -> Seq(Nat)]
    <3>1. \A t \in Sockets : sent[t] \in Seq(Nat)
      BY DEF SentInv, ReaderTypes
    <3>2. \A t \in Sockets : sent'[t] \in Seq(Nat)
      <4> TAKE t \in Sockets
      <4>1. \A w : sent[t] \o Selected(stream, from, to, w) \in Seq(Nat)
        BY <1>7, <3>1, ConcatProperties
      <4> QED BY <1>6, <3>1, <4>1
    <3>3. sent' = [t \in Sockets |-> sent'[t]]
      BY DEF Deliver, broadcast
    <3> QED BY <3>2, <3>3
  <2> QED BY <1>1, <1>3, <1>4, <2>1 DEF SentInv, ReaderTypes
<1>9. ReaderSound'
  <2>1. \A t \in Sockets : joined'[t] <= to
    BY <1>1, <1>2, <1>5
  <2> QED BY <1>1, <1>2, <1>3, <1>4, <2>1 DEF ReaderSound, Seen
<1>10. \A w : \A j \in Nat :
          j <= from => Selected(stream, j, to, w) = Selected(stream, j, from, w) \o Selected(stream, from, to, w)
  <2>1. from \in Nat /\ to \in Nat /\ from <= to
    BY <1>2
  <2> HIDE DEF from
  <2> QED BY <2>1, SelectedParts
<1>11. SentSound'
  <2> SUFFICES ASSUME NEW t \in Sockets
               PROVE  /\ conn'[t].phase # "in" => sent'[t] = <<>>
                      /\ Live(conn'[t]) =>
                           sent'[t] = Owed(stream', reader'.last, joined'[t], base', WorkspaceOf[conn'[t].key])
    BY DEF SentSound
  <2>1. conn'[t].phase # "in" => sent'[t] = <<>>
    BY <1>1, <1>6 DEF SentInv, SentSound
  <2>2. ASSUME Live(conn[t])
        PROVE  sent'[t] = Owed(stream, to, joined[t], base', WorkspaceOf[conn[t].key])
    <3> DEFINE w == WorkspaceOf[conn[t].key]
               j == IF joined[t] > base' THEN joined[t] ELSE base'
    <3>1. sent'[t] = sent[t] \o Selected(stream, from, to, w)
      BY <1>6, <2>2
    <3>2. sent[t] = Owed(stream, reader.last, joined[t], base, w)
      BY <2>2 DEF SentInv, SentSound
    <3>3. j \in Nat /\ j <= from
      BY <1>4, <1>5
    <3>4. sent[t] = Selected(stream, j, from, w)
      <4>1. CASE reader.last = Dollar
        <5>1. sent[t] = <<>>
          BY <3>2, <4>1 DEF Owed
        <5>2. j = from
          <6>1. joined[t] = 0
            BY <1>5, <4>1 DEF SentInv, ReaderSound, Seen
          <6> QED BY <1>1, <1>2, <4>1, <6>1
        <5>3. Selected(stream, from, from, w) = <<>>
          BY <1>2, SelectedNone
        <5> QED BY <5>1, <5>2, <5>3
      <4>2. CASE reader.last # Dollar
        <5>1. from = reader.last /\ base' = base
          BY <1>1, <4>2 DEF SentInv, ReaderSound
        <5> QED BY <3>2, <4>2, <5>1 DEF Owed
      <4> QED BY <4>1, <4>2
    <3> HIDE DEF j
    <3>5. Selected(stream, j, to, w) = Selected(stream, j, from, w) \o Selected(stream, from, to, w)
      BY <1>10, <3>3
    <3>6. Owed(stream, to, joined[t], base', w) = Selected(stream, j, to, w)
      BY <1>2 DEF Owed, j
    <3> QED BY <3>1, <3>4, <3>5, <3>6
  <2>3. conn' = conn /\ stream' = stream /\ joined' = joined /\ reader'.last = to
    BY <1>1, <1>3
  <2> QED BY <2>1, <2>2, <2>3
<1> QED BY <1>8, <1>9, <1>11 DEF SentInv

LEMMA SentInitially == Init => SentInv
<1> SUFFICES ASSUME Init PROVE SentInv
  OBVIOUS
<1>1. ReaderTypes
  BY EmptySeq DEF Init, ReaderTypes, Start
<1>2. ReaderSound
  BY DEF Init, ReaderSound, Start, Seen
<1>3. SentSound
  BY DEF Init, SentSound, Live, Unused
<1> QED BY <1>1, <1>2, <1>3 DEF SentInv

LEMMA SentInductive == HubInv /\ SentInv /\ [Next]_vars => SentInv'
<1> SUFFICES ASSUME HubInv, SentInv, [Next]_vars PROVE SentInv'
  OBVIOUS
<1>1. CASE UNCHANGED vars
  BY <1>1, SentElsewhere DEF vars
<1>2. CASE \E s \in Sockets : SocketStep(s)
  <2> PICK s \in Sockets : SocketStep(s)
    BY <1>2
  <2>1. ClientCloses(s) \/ CloseEnds(s) => SentInv'
    BY SocketGone DEF ClientCloses, CloseEnds
  <2>2. VerifyFails(s) => SentInv'
    BY AfterRestart DEF VerifyFails
  <2> QED BY <2>1, <2>2, Arrival, Admission, Waiting, Answering DEF SocketStep
<1>3. CASE ReaderStep
  <2>1. Block \/ ReadNothing \/ ReadFails \/ Resume => UNCHANGED <<conn, stream, sent, joined, base>>
    BY DEF Block, ReadNothing, ReadFails, Resume, sockets, history
  <2> QED BY <1>3, <2>1, SentElsewhere, Delivered DEF ReaderStep
<1>4. CASE \E k \in Keys : CreateKey(k) \/ RevokeKey(k) \/ KeyExpires(k)
  BY <1>4, SentElsewhere DEF CreateKey, RevokeKey, KeyExpires, KeyBecomes, events, history
<1>5. CASE \E w \in Workspaces : Publish(w)
  BY <1>5, Published
<1>6. CASE Stop
  BY <1>6, AfterRestart DEF Stop
<1> QED BY <1>1, <1>2, <1>3, <1>4, <1>5, <1>6 DEF Next

\* Whatever fails, closes, joins or is read in between: a live socket has been sent every
\* event of its workspace since it joined and the broadcaster began, each once, in order,
\* and no event of another workspace (ws/broadcaster.ts).
THEOREM NothingIsMissed == Spec => []NothingMissed
<1>1. Spec => []HubInv
  BY Initially, Inductive, PTL DEF Spec
<1>2. Spec => []SentInv
  BY <1>1, SentInitially, SentInductive, PTL DEF Spec
<1> QED BY <1>2, SentEnough, PTL
=============================================================================
