------------------------------ MODULE WsRooms ------------------------------
(***************************************************************************)
(* Rooms of WebSocket connections (ffi/doo_ffi_http/src/ws/room.rs): a     *)
(* DashMap from room names to sets of connections, joined and left by the  *)
(* tasks of the connections and purged when a connection is removed from   *)
(* ConnRegistry.  Every access to the map locks one shard; leave() gives   *)
(* the lock up between finding a room empty and deleting it.  Reading the  *)
(* members for doo_ws_room_emit changes nothing and is not an action.      *)
(***************************************************************************)

CONSTANTS
    Conns,   \* the connections, each used for one lifetime
    Rooms,
    NoRoom   \* "not deleting any room"

ASSUME NoRoomIsNoRoom == NoRoom \notin Rooms

VARIABLES
    phase,    \* the life of each connection
    existing, \* the keys of the map
    members,  \* its values; {} where there is no key
    leaving,  \* the room a task found empty and is about to delete
    purge,    \* the rooms remove_from_all has still to leave
    joined    \* history: the rooms each connection joined and has not left

vars == <<phase, existing, members, leaving, purge, joined>>

Phases == {"new", "open", "removed", "purging", "gone"}

\* The second part: only a key that is there has a value.
TypeOK ==
    /\ phase \in [Conns -> Phases]
    /\ existing \subseteq Rooms
    /\ members \in [Rooms -> SUBSET Conns]
    /\ leaving \in [Conns -> Rooms \cup {NoRoom}]
    /\ purge \in [Conns -> SUBSET Rooms]
    /\ joined \in [Conns -> SUBSET Rooms]
    /\ \A r \in Rooms \ existing : members[r] = {}

Init ==
    /\ phase = [c \in Conns |-> "new"]
    /\ existing = {}
    /\ members = [r \in Rooms |-> {}]
    /\ leaving = [c \in Conns |-> NoRoom]
    /\ purge = [c \in Conns |-> {}]
    /\ joined = [c \in Conns |-> {}]

-----------------------------------------------------------------------------
\* The task of connection c is in phase p and not inside leave().
Ready(c, p) == phase[c] = p /\ leaving[c] = NoRoom

Connect(c) ==
    /\ Ready(c, "new")
    /\ phase' = [phase EXCEPT ![c] = "open"]
    /\ UNCHANGED <<existing, members, leaving, purge, joined>>

\* entry().or_insert_with() and the insertion happen under one shard lock.
Join(c, r) ==
    /\ Ready(c, "open")
    /\ existing' = existing \cup {r}
    /\ members' = [members EXCEPT ![r] = @ \cup {c}]
    /\ joined' = [joined EXCEPT ![c] = @ \cup {r}]
    /\ UNCHANGED <<phase, leaving, purge>>

\* Mutated: the set is looked at before the connection is taken out of it.
TakeOutLate(c, r) ==
    /\ members' = [members EXCEPT ![r] = @ \ {c}]
    /\ joined' = [joined EXCEPT ![c] = @ \ {r}]
    /\ leaving' = [leaving EXCEPT ![c] =
                      IF r \in existing /\ members[r] = {} THEN r ELSE NoRoom]

\* Mutated: a connection is taken out only with the room.
TakeOutWithRoom(c, r) ==
    /\ members' = [members EXCEPT ![r] = IF @ = {c} THEN {} ELSE @]
    /\ joined' = [joined EXCEPT ![c] = @ \ {r}]
    /\ leaving' = [leaving EXCEPT ![c] =
                      IF r \in existing /\ members[r] \ {c} = {} THEN r ELSE NoRoom]

\* The first half of leave(), under the shard lock: take the connection out and
\* look whether the room is empty now; if it is, the lock is dropped and the
\* task goes on to delete the room.
TakeOut(c, r) ==
    /\ members' = [members EXCEPT ![r] = @ \ {c}]
    /\ joined' = [joined EXCEPT ![c] = @ \ {r}]
    /\ leaving' = [leaving EXCEPT ![c] =
                      IF r \in existing /\ members[r] \ {c} = {} THEN r ELSE NoRoom]

Leave(c, r) ==
    /\ Ready(c, "open")
    /\ TakeOut(c, r)
    /\ UNCHANGED <<phase, existing, purge>>

\* Mutated: the key goes and the set stays reachable.
DeleteKeyOnly(c) ==
    /\ leaving[c] # NoRoom
    /\ existing' = existing \ {leaving[c]}
    /\ leaving' = [leaving EXCEPT ![c] = NoRoom]
    /\ UNCHANGED <<phase, members, purge, joined>>

\* The second half of leave(): rooms.remove(room), whatever is in it by now.
DeleteRoom(c) ==
    /\ leaving[c] # NoRoom
    /\ existing' = existing \ {leaving[c]}
    /\ members' = [members EXCEPT ![leaving[c]] = {}]
    /\ leaving' = [leaving EXCEPT ![c] = NoRoom]
    /\ UNCHANGED <<phase, purge, joined>>

\* Disconnect: ConnRegistry::remove takes the entry out ...
RemoveConn(c) ==
    /\ Ready(c, "open")
    /\ phase' = [phase EXCEPT ![c] = "removed"]
    /\ UNCHANGED <<existing, members, leaving, purge, joined>>

\* Mutated: the rooms are collected and not left.
CollectOnly(c) ==
    /\ phase[c] = "removed"
    /\ purge' = [purge EXCEPT ![c] = {r \in existing : c \in members[r]}]
    /\ phase' = [phase EXCEPT ![c] = "gone"]
    /\ UNCHANGED <<existing, members, leaving, joined>>

\* ... and remove_from_all collects the rooms that hold the connection,
CollectRooms(c) ==
    /\ phase[c] = "removed"
    /\ purge' = [purge EXCEPT ![c] = {r \in existing : c \in members[r]}]
    /\ phase' = [phase EXCEPT ![c] = "purging"]
    /\ UNCHANGED <<existing, members, leaving, joined>>

\* leaves them one by one,
PurgeRoom(c, r) ==
    /\ Ready(c, "purging")
    /\ r \in purge[c]
    /\ TakeOut(c, r)
    /\ purge' = [purge EXCEPT ![c] = @ \ {r}]
    /\ UNCHANGED <<phase, existing>>

\* and returns.
PurgeDone(c) ==
    /\ Ready(c, "purging")
    /\ purge[c] = {}
    /\ phase' = [phase EXCEPT ![c] = "gone"]
    /\ UNCHANGED <<existing, members, leaving, purge, joined>>

Next == \E c \in Conns :
    \/ Connect(c) \/ DeleteRoom(c) \/ RemoveConn(c) \/ CollectRooms(c) \/ PurgeDone(c)
    \/ \E r \in Rooms : Join(c, r) \/ Leave(c, r) \/ PurgeRoom(c, r)

Spec == Init /\ [][Next]_vars

-----------------------------------------------------------------------------
\* Nobody hears a room it is not in: a member of a room joined it and has not
\* left it since, however joins, leaves and deletions interleave.
NoGhostMember == \A r \in Rooms : \A c \in members[r] : r \in joined[c]

\* room.rs: "remove_from_all() is called to purge it from every room".  When
\* the purge is over the connection is in no room and never will be.
GonePurged ==
    \A c \in Conns : phase[c] = "gone" => \A r \in Rooms : c \notin members[r]

\* No empty room is left behind: some task is about to delete it.
EmptyRoomsDeleted ==
    \A r \in existing : members[r] = {} => \E c \in Conns : leaving[c] = r

\* room.rs: "Clean up empty rooms".  Deleting rooms takes nobody out of a room:
\* an open connection that joined and did not leave is a member.
JoinedAreMembers ==
    \A c \in Conns : phase[c] = "open" => \A r \in joined[c] : c \in members[r]

\* A room holds only connections that joined it and are still there, and goes away
\* with its last member.
RoomsExact == NoGhostMember /\ GonePurged /\ EmptyRoomsDeleted
=============================================================================
