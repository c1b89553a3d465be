-------------------------------- MODULE Groups --------------------------------
(***************************************************************************)
(* Player groups: GROUP CREATE, INVITE, JOIN and LEAVE, and what becomes   *)
(* of a group when a player leaves the game.  Every action is a critical   *)
(* section of s.mu.  A handler whose queue is full changes nothing and     *)
(* stops serving its player: StopServing.                                  *)
(*                                                                         *)
(* A group exists while it has members: s.groups drops the last member's   *)
(* group.  Names are numbers in the order of the strings they stand for.   *)
(***************************************************************************)
EXTENDS Naturals

CONSTANTS
    Names,      \* player names
    MaxGroups   \* bound: how many groups may be created

ASSUME NamesAssumption == Names \subseteq Nat \ {0}
ASSUME MaxGroupsAssumption == MaxGroups \in Nat

GroupIds == 1 .. MaxGroups
NoGroup  == 0
NoLeader == 0

VARIABLES
    players,    \* DOMAIN s.players
    clients,    \* DOMAIN s.clients: registered by handleConnect
    serving,    \* players whose handler reads commands
    groupOf,    \* s.groupByPlayer
    leader,     \* Group.Leader
    members,    \* Group.Members
    invited,    \* Group.Invited
    nextId,     \* s.nextGroupID
    told        \* history: the leaders in a player's EVT GROUP INVITE

presence == <<players, clients, serving>>
groups   == <<groupOf, leader, members, invited, nextId>>
vars     == <<presence, groups, told>>

Init ==
    /\ players = {} /\ clients = {} /\ serving = {}
    /\ groupOf = [n \in Names |-> NoGroup]
    /\ leader = [g \in GroupIds |-> NoLeader]
    /\ members = [g \in GroupIds |-> {}]
    /\ invited = [g \in GroupIds |-> {}]
    /\ nextId = 0
    /\ told = [n \in Names |-> {}]

InGroup(n) == groupOf[n] # NoGroup

\* Mutant: only the invitations of the own group are dropped.
ClearInvitesMutant(inv, n) ==
    [g \in GroupIds |-> IF g = groupOf[n] THEN inv[g] \ {n} ELSE inv[g]]

\* clearGroupInvitesLocked, on the invitations inv.
ClearInvites(inv, n) == [g \in GroupIds |-> inv[g] \ {n}]

-------------------------------------------------------------------------------
(* Coming and going.                                                       *)

\* connectPlayer installs the player.
Connect(n) ==
    /\ n \notin players
    /\ players' = players \cup {n}
    /\ UNCHANGED <<clients, serving, groups, told>>

\* handleConnect's second critical section, when the response is enqueued.
Register(n) ==
    /\ n \in players \ clients
    /\ clients' = clients \cup {n}
    /\ serving' = serving \cup {n}
    /\ UNCHANGED <<players, groups, told>>

\* QUIT, a lost connection or a full queue: the player is being saved.
StopServing(n) ==
    /\ n \in serving
    /\ serving' = serving \ {n}
    /\ UNCHANGED <<players, clients, groups, told>>

\* The save of a QUIT failed: the player goes on.
Resume(n) ==
    /\ n \in clients \ serving
    /\ serving' = serving \cup {n}
    /\ UNCHANGED <<players, clients, groups, told>>

-------------------------------------------------------------------------------
(* The commands.                                                           *)

Create(n) ==
    /\ n \in serving /\ ~InGroup(n)
    /\ nextId < MaxGroups
    /\ nextId' = nextId + 1
    /\ leader' = [leader EXCEPT ![nextId + 1] = n]
    /\ members' = [members EXCEPT ![nextId + 1] = {n}]
    /\ groupOf' = [groupOf EXCEPT ![n] = nextId + 1]
    /\ invited' = ClearInvites(invited, n)
    /\ UNCHANGED <<presence, told>>

Invitable(t) == ~InGroup(t) /\ t \in clients

\* Any member may invite; the event names the leader, not the member.
Invite(n, t) ==
    /\ n \in serving /\ InGroup(n)
    /\ Invitable(t)
    /\ invited' = [invited EXCEPT ![groupOf[n]] = @ \cup {t}]
    /\ told' = [told EXCEPT ![t] = @ \cup {leader[groupOf[n]]}]
    /\ UNCHANGED <<presence, groupOf, leader, members, nextId>>

\* Mutant: naming the leader of a group is enough to join it.
MayJoinMutant(n, l) == InGroup(l) /\ leader[groupOf[l]] = l

MayJoin(n, l) ==
    /\ InGroup(l)
    /\ leader[groupOf[l]] = l
    /\ n \in invited[groupOf[l]]

\* Join the group that l leads.
Join(n, l) ==
    /\ n \in serving /\ ~InGroup(n)
    /\ MayJoin(n, l)
    /\ members' = [members EXCEPT ![groupOf[l]] = @ \cup {n}]
    /\ groupOf' = [groupOf EXCEPT ![n] = groupOf[l]]
    /\ invited' = ClearInvites(invited, n)
    /\ UNCHANGED <<presence, leader, nextId, told>>

\* Mutant: the invitations survive a change of leader.
InvitedWithoutMutant(n) == invited

\* The invitations once n has left its group: a leader's are void, and those
\* of a group that ends with n.
InvitedWithout(n) ==
    IF InGroup(n) /\ (leader[groupOf[n]] = n \/ members[groupOf[n]] = {n})
    THEN [invited EXCEPT ![groupOf[n]] = {}] ELSE invited

\* Mutant: the next leader may be any player who remains.
SucceedsMutant(m, rest) == m \in rest

\* The member with the smallest name takes over.
Succeeds(m, rest) == m \in rest /\ \A k \in rest : m <= k

\* Mutant: a group keeps its leader's name when the leader leaves.
NextLeaderMutant(n, g, rest) == leader' = leader

NextLeader(n, g, rest) ==
    \/ rest = {} /\ leader' = [leader EXCEPT ![g] = NoLeader]
    \/ rest # {} /\ leader[g] # n /\ leader' = leader
    \/ leader[g] = n /\ \E m \in rest :
          Succeeds(m, rest) /\ leader' = [leader EXCEPT ![g] = m]

\* removeGroupMemberLocked, but for the invitations.
RemoveMember(n) ==
    IF InGroup(n)
    THEN LET g == groupOf[n]
             rest == members[g] \ {n}
         IN  /\ groupOf' = [groupOf EXCEPT ![n] = NoGroup]
             /\ members' = [members EXCEPT ![g] = rest]
             /\ NextLeader(n, g, rest)
    ELSE UNCHANGED <<groupOf, members, leader>>

Leave(n) ==
    /\ n \in serving /\ InGroup(n)
    /\ RemoveMember(n)
    /\ invited' = InvitedWithout(n)
    /\ UNCHANGED <<presence, nextId, told>>

ClientsWithout(n) == clients \ {n}

\* removePlayerLocked, once the player is saved or given up.
Remove(n) ==
    /\ n \in players \ serving
    /\ players' = players \ {n}
    /\ clients' = ClientsWithout(n)
    /\ RemoveMember(n)
    /\ invited' = ClearInvites(InvitedWithout(n), n)
    /\ told' = [told EXCEPT ![n] = {}]
    /\ UNCHANGED <<serving, nextId>>

Next ==
    \E n \in Names :
        \/ Connect(n) \/ Register(n) \/ StopServing(n) \/ Resume(n)
        \/ Create(n) \/ Leave(n) \/ Remove(n)
        \/ \E m \in Names : Invite(n, m) \/ Join(n, m)

Spec == Init /\ [][Next]_vars

-------------------------------------------------------------------------------
(* Properties.                                                             *)

TypeOK ==
    /\ players \subseteq Names
    /\ clients \subseteq players
    /\ serving \subseteq clients
    /\ groupOf \in [Names -> GroupIds \cup {NoGroup}]
    /\ leader \in [GroupIds -> Names \cup {NoLeader}]
    /\ members \in [GroupIds -> SUBSET Names]
    /\ invited \in [GroupIds -> SUBSET Names]
    /\ nextId \in 0 .. MaxGroups
    /\ told \in [Names -> SUBSET Names]

\* The two tables agree: a player's group lists the player and no other group
\* does, members are in the game, and a group that exists is led by a member.
GroupsAgree ==
    /\ \A n \in Names, g \in GroupIds : groupOf[n] = g <=> n \in members[g]
    /\ \A g \in GroupIds :
          /\ members[g] \subseteq clients
          /\ members[g] # {} => leader[g] \in members[g]
          /\ members[g] = {} => leader[g] = NoLeader

\* Invitations are open: they are for players in the game who have no group,
\* and end with the group, whoever leaves, disconnects or joins meanwhile.
InvitesOpen ==
    \A g \in GroupIds : \A n \in invited[g] :
        n \in clients /\ ~InGroup(n) /\ members[g] # {}

\* An invited player knows whom to name in GROUP JOIN: it was told the leader
\* the group has now, though leaders change after the invitation was sent.
InvitesNameLeader ==
    \A g \in GroupIds : \A n \in invited[g] : leader[g] \in told[n]

\* A player gets into a group by creating it under an identifier never used
\* before, or by joining a group that had invited it.
JoinsByInvitation ==
    [][\A g \in GroupIds, n \in Names :
          n \notin members[g] /\ n \in members'[g] =>
              \/ n \in invited[g] /\ leader'[g] = leader[g]
              \/ members'[g] = {n} /\ leader'[g] = n /\ nextId < g]_vars

\* Leadership passes on only when the leader leaves the group, to the smallest
\* name that remains, and the old leader's invitations are void.
LeaderSucceeds ==
    [][\A g \in GroupIds :
          leader[g] # NoLeader /\ leader'[g] # leader[g] =>
              /\ leader[g] \notin members'[g]
              /\ invited'[g] = {}
              /\ \/ members'[g] = {}
                 \/ \A m \in members'[g] : leader'[g] <= m]_vars
===============================================================================
