---------------------------- MODULE PresenceProofs ----------------------------
(***************************************************************************)
(* The tables of groups and, on top of them, what a client can know of its *)
(* company.                                                                *)
(***************************************************************************)
EXTENDS Presence, FiniteSetTheorems, TLAPS

(***************************************************************************)
(* The group invariants hold for every set of names and any number of      *)
(* groups.  They are inductive together: an invitation is open because its *)
(* group's members are connected, and a group has a leader because a       *)
(* leader who leaves is replaced in the same critical section.             *)
(***************************************************************************)

Inv ==
    /\ TypeOK
    /\ GroupsAgree
    /\ InvitesOpen
    /\ InvitesNameLeader

\* Identifiers above nextId are not in use.
FreshIds == \A g \in GroupIds : nextId < g => members[g] = {}

IInv == Inv /\ FreshIds

USE NamesAssumption, MaxGroupsAssumption DEF GroupIds, NoGroup, NoLeader

\* The empty game satisfies the invariant.
LEMMA InitInv == Init => IInv
BY DEF Init, IInv, Inv, TypeOK, GroupsAgree, InvitesOpen, InvitesNameLeader,
       FreshIds, InGroup

\* A player who is no member of any group can be added to one.
LEMMA CreateInv ==
    ASSUME IInv, NEW n \in Names, Create(n) PROVE IInv'
<1> USE DEF IInv, Inv, Create, presence
<1>1. nextId + 1 \in GroupIds /\ members[nextId + 1] = {}
  BY DEF TypeOK, FreshIds
<1>2. TypeOK'
  BY <1>1 DEF TypeOK, ClearInvites
<1>3. GroupsAgree'
  BY <1>1 DEF TypeOK, GroupsAgree, InGroup
<1>4. InvitesOpen'
  BY <1>1 DEF TypeOK, GroupsAgree, InvitesOpen, InGroup, ClearInvites
<1>5. InvitesNameLeader'
  BY <1>1 DEF TypeOK, InvitesOpen, InvitesNameLeader, ClearInvites
<1>6. FreshIds'
  BY <1>1 DEF TypeOK, FreshIds
<1> QED BY <1>2, <1>3, <1>4, <1>5, <1>6

\* An invitation records the leader that its event names.
LEMMA InviteInv ==
    ASSUME IInv, NEW n \in Names, NEW t \in Names, Invite(n, t) PROVE IInv'
<1> USE DEF IInv, Inv, Invite, presence
<1>1. groupOf[n] \in GroupIds /\ n \in members[groupOf[n]]
  BY DEF TypeOK, GroupsAgree, InGroup
<1>2. leader[groupOf[n]] \in Names
  BY <1>1 DEF TypeOK, GroupsAgree
<1>3. TypeOK'
  BY <1>1, <1>2 DEF TypeOK
<1>4. GroupsAgree'
  BY DEF GroupsAgree
<1>5. InvitesOpen'
  BY <1>1 DEF TypeOK, InvitesOpen, InGroup, Invitable
<1>6. InvitesNameLeader'
  BY <1>1, <1>2 DEF TypeOK, InvitesNameLeader
<1>7. FreshIds'
  BY DEF FreshIds
<1> QED BY <1>3, <1>4, <1>5, <1>6, <1>7

\* Joining takes the joiner's other invitations away.
LEMMA JoinInv ==
    ASSUME IInv, NEW n \in Names, NEW l \in Names, Join(n, l) PROVE IInv'
<1> USE DEF IInv, Inv, Join, MayJoin, presence
<1>1. groupOf[l] \in GroupIds /\ l \in members[groupOf[l]]
  BY DEF TypeOK, GroupsAgree, InGroup
<1>2. TypeOK'
  BY <1>1 DEF TypeOK, ClearInvites
<1>3. GroupsAgree'
  BY <1>1 DEF TypeOK, GroupsAgree, InGroup
<1>4. InvitesOpen'
  BY <1>1 DEF TypeOK, InvitesOpen, InGroup, ClearInvites
<1>5. InvitesNameLeader'
  BY <1>1 DEF TypeOK, InvitesNameLeader, ClearInvites
<1>6. FreshIds'
  BY <1>1 DEF TypeOK, FreshIds
<1> QED BY <1>2, <1>3, <1>4, <1>5, <1>6

\* What removeGroupMemberLocked leaves behind: the two tables still agree, and
\* a group whose leader changed has no invitations.
LEMMA RemoveMemberFacts ==
    ASSUME IInv, NEW n \in Names, RemoveMember(n)
    PROVE  /\ groupOf' = [groupOf EXCEPT ![n] = NoGroup]
           /\ leader' \in [GroupIds -> Names \cup {NoLeader}]
           /\ members' \in [GroupIds -> SUBSET Names]
           /\ \A m \in Names, g \in GroupIds : groupOf'[m] = g <=> m \in members'[g]
           /\ \A g \in GroupIds :
                 /\ members'[g] = members[g] \ {n}
                 /\ members'[g] # {} => leader'[g] \in members'[g]
                 /\ members'[g] = {} => leader'[g] = NoLeader
                 /\ InvitedWithout(n)[g] \subseteq invited[g]
                 /\ InvitedWithout(n)[g] # {} =>
                       leader'[g] = leader[g] /\ members'[g] # {}
           /\ InvitedWithout(n) \in [GroupIds -> SUBSET Names]
<1> USE DEF IInv, Inv, TypeOK, RemoveMember
<1>1. CASE ~InGroup(n)
  <2>1. groupOf' = groupOf /\ members' = members /\ leader' = leader
    BY <1>1
  <2>2. InvitedWithout(n) = invited
    BY <1>1 DEF InvitedWithout
  <2>3. \A g \in GroupIds : n \notin members[g]
    BY <1>1 DEF GroupsAgree, InGroup
  <2>4. groupOf' = [groupOf EXCEPT ![n] = NoGroup]
    BY <1>1, <2>1 DEF InGroup
  <2>5. \A g \in GroupIds : members'[g] = members[g] \ {n}
    BY <2>1, <2>3
  <2>6. \A g \in GroupIds : invited[g] # {} => members[g] # {}
    BY DEF InvitesOpen
  <2>7. /\ \A m \in Names, g \in GroupIds : groupOf'[m] = g <=> m \in members'[g]
        /\ \A g \in GroupIds :
              /\ members'[g] # {} => leader'[g] \in members'[g]
              /\ members'[g] = {} => leader'[g] = NoLeader
    BY <2>1 DEF GroupsAgree
  <2> QED BY <2>1, <2>2, <2>4, <2>5, <2>6, <2>7
<1>2. CASE InGroup(n)
  <2> DEFINE g0 == groupOf[n]
             rest == members[g0] \ {n}
  <2>1. g0 \in GroupIds /\ n \in members[g0]
    BY <1>2 DEF GroupsAgree, InGroup
  <2>2. /\ groupOf' = [groupOf EXCEPT ![n] = NoGroup]
        /\ members' = [members EXCEPT ![g0] = rest]
        /\ NextLeader(n, g0, rest)
    BY <1>2
  <2>3. /\ leader' \in [GroupIds -> Names \cup {NoLeader}]
        /\ \A g \in GroupIds \ {g0} : leader'[g] = leader[g]
        /\ rest # {} => leader'[g0] \in rest
        /\ rest = {} => leader'[g0] = NoLeader
        /\ rest # {} /\ leader[g0] # n => leader'[g0] = leader[g0]
    BY <2>1, <2>2 DEF NextLeader, Succeeds, GroupsAgree
  <2>4. \A g \in GroupIds : members'[g] = members[g] \ {n}
    BY <2>1, <2>2 DEF GroupsAgree
  <2>5. \A m \in Names, g \in GroupIds : groupOf'[m] = g <=> m \in members'[g]
    BY <2>1, <2>2, <2>4 DEF GroupsAgree
  <2>6. \A g \in GroupIds :
          /\ members'[g] # {} => leader'[g] \in members'[g]
          /\ members'[g] = {} => leader'[g] = NoLeader
    BY <2>1, <2>2, <2>3 DEF GroupsAgree
  <2>7. /\ InvitedWithout(n) \in [GroupIds -> SUBSET Names]
        /\ \A g \in GroupIds :
             /\ InvitedWithout(n)[g] \subseteq invited[g]
             /\ g # g0 => InvitedWithout(n)[g] = invited[g]
             /\ g = g0 /\ (leader[g0] = n \/ rest = {}) =>
                   InvitedWithout(n)[g] = {}
    BY <1>2, <2>1 DEF InvitedWithout
  <2>8. \A g \in GroupIds : InvitedWithout(n)[g] # {} =>
           leader'[g] = leader[g] /\ members'[g] # {}
    <3> SUFFICES ASSUME NEW g \in GroupIds, InvitedWithout(n)[g] # {}
                 PROVE  leader'[g] = leader[g] /\ members'[g] # {}
      OBVIOUS
    <3>1. CASE g = g0
      <4>1. leader[g0] # n /\ rest # {}
        BY <3>1, <2>7
      <4>2. members'[g0] = rest
        BY <2>1, <2>2
      <4> QED BY <3>1, <4>1, <4>2, <2>3
    <3>2. CASE g # g0
      <4>1. invited[g] # {}
        BY <3>2, <2>7
      <4>2. members[g] # {}
        BY <4>1 DEF InvitesOpen
      <4> QED BY <3>2, <4>2, <2>1, <2>2, <2>3
    <3> QED BY <3>1, <3>2
  <2>9. members' \in [GroupIds -> SUBSET Names]
    BY <2>1, <2>2
  <2> QED BY <2>2, <2>3, <2>4, <2>5, <2>6, <2>7, <2>8, <2>9
<1> QED BY <1>1, <1>2

\* GROUP LEAVE.
LEMMA LeaveInv ==
    ASSUME IInv, NEW n \in Names, Leave(n) PROVE IInv'
<1> USE DEF IInv, Inv, Leave, presence
<1>1. RemoveMember(n) /\ invited' = InvitedWithout(n)
  OBVIOUS
<1>2. TypeOK'
  <2>1. /\ groupOf' = [groupOf EXCEPT ![n] = NoGroup]
        /\ members' \in [GroupIds -> SUBSET Names]
        /\ leader' \in [GroupIds -> Names \cup {NoLeader}]
        /\ invited' \in [GroupIds -> SUBSET Names]
    BY <1>1, RemoveMemberFacts
  <2>2. UNCHANGED <<players, clients, serving, nextId, told>>
    OBVIOUS
  <2> QED BY <2>1, <2>2 DEF TypeOK
<1>3. GroupsAgree'
  BY <1>1, RemoveMemberFacts DEF GroupsAgree, TypeOK
<1>4. InvitesOpen'
  <2> SUFFICES ASSUME NEW g \in GroupIds, NEW m \in invited'[g]
               PROVE  m \in clients' /\ groupOf'[m] = NoGroup /\ members'[g] # {}
    BY DEF InvitesOpen, InGroup
  <2>1. m \in InvitedWithout(n)[g] /\ m \in invited[g] /\ m \in Names
    BY <1>1, RemoveMemberFacts DEF TypeOK
  <2>2. m \in clients /\ groupOf[m] = NoGroup
    BY <2>1 DEF InvitesOpen, InGroup
  <2>3. members'[g] # {} /\ groupOf' = [groupOf EXCEPT ![n] = NoGroup]
    BY <1>1, <2>1, RemoveMemberFacts
  <2> QED BY <2>2, <2>3 DEF TypeOK
<1>5. InvitesNameLeader'
  <2> SUFFICES ASSUME NEW g \in GroupIds, NEW m \in invited'[g]
               PROVE  leader'[g] \in told'[m]
    BY DEF InvitesNameLeader
  <2>1. m \in InvitedWithout(n)[g] /\ m \in invited[g]
    BY <1>1, RemoveMemberFacts
  <2>2. leader[g] \in told[m]
    BY <2>1 DEF InvitesNameLeader
  <2>3. leader'[g] = leader[g]
    BY <1>1, <2>1, RemoveMemberFacts
  <2> QED BY <2>2, <2>3
<1>6. FreshIds'
  BY <1>1, RemoveMemberFacts DEF FreshIds, TypeOK
<1> QED BY <1>2, <1>3, <1>4, <1>5, <1>6

\* The end of a session.
LEMMA RemoveInv ==
    ASSUME IInv, NEW n \in Names, Remove(n) PROVE IInv'
<1> USE DEF IInv, Inv, Remove, ClientsWithout
<1>1. RemoveMember(n) /\ invited' = ClearInvites(InvitedWithout(n), n)
  OBVIOUS
<1>2. /\ \A g \in GroupIds : invited'[g] = InvitedWithout(n)[g] \ {n}
      /\ invited' \in [GroupIds -> SUBSET Names]
  BY <1>1, RemoveMemberFacts DEF ClearInvites
<1>3. TypeOK'
  <2>1. /\ groupOf' = [groupOf EXCEPT ![n] = NoGroup]
        /\ members' \in [GroupIds -> SUBSET Names]
        /\ leader' \in [GroupIds -> Names \cup {NoLeader}]
    BY <1>1, RemoveMemberFacts
  <2>2. /\ players' = players \ {n} /\ clients' = clients \ {n}
        /\ told' = [told EXCEPT ![n] = {}]
        /\ UNCHANGED <<serving, nextId>> /\ n \notin serving
    OBVIOUS
  <2> QED BY <1>2, <2>1, <2>2 DEF TypeOK
<1>4. GroupsAgree'
  BY <1>1, RemoveMemberFacts DEF GroupsAgree, TypeOK
<1>5. InvitesOpen'
  <2> SUFFICES ASSUME NEW g \in GroupIds, NEW m \in invited'[g]
               PROVE  m \in clients' /\ groupOf'[m] = NoGroup /\ members'[g] # {}
    BY DEF InvitesOpen, InGroup
  <2>1. m \in InvitedWithout(n)[g] /\ m \in invited[g] /\ m \in Names /\ m # n
    BY <1>2, RemoveMemberFacts DEF TypeOK
  <2>2. m \in clients /\ groupOf[m] = NoGroup
    BY <2>1 DEF InvitesOpen, InGroup
  <2>3. members'[g] # {}
    BY <1>1, <2>1, RemoveMemberFacts
  <2>4. groupOf'[m] = groupOf[m]
    BY <1>1, <2>1, RemoveMemberFacts DEF TypeOK
  <2> QED BY <2>1, <2>2, <2>3, <2>4
<1>6. InvitesNameLeader'
  <2> SUFFICES ASSUME NEW g \in GroupIds, NEW m \in invited'[g]
               PROVE  leader'[g] \in told'[m]
    BY DEF InvitesNameLeader
  <2>1. m \in InvitedWithout(n)[g] /\ m \in invited[g] /\ m \in Names /\ m # n
    BY <1>2, RemoveMemberFacts DEF TypeOK
  <2>2. leader[g] \in told[m]
    BY <2>1 DEF InvitesNameLeader
  <2>3. leader'[g] = leader[g]
    BY <1>1, <2>1, RemoveMemberFacts
  <2>4. told'[m] = told[m]
    BY <2>1 DEF TypeOK
  <2> QED BY <2>2, <2>3, <2>4
<1>7. FreshIds'
  BY <1>1, RemoveMemberFacts DEF FreshIds, TypeOK
<1> QED BY <1>3, <1>4, <1>5, <1>6, <1>7

\* Every critical section keeps the invariant.
LEMMA NextInv == IInv /\ [Next]_vars => IInv'
<1> SUFFICES ASSUME IInv, [Next]_vars PROVE IInv'
  OBVIOUS
<1>1. CASE UNCHANGED vars
  BY <1>1 DEF vars, presence, groups, IInv, Inv, TypeOK, GroupsAgree,
              InvitesOpen, InvitesNameLeader, FreshIds, InGroup
<1>2. ASSUME NEW n \in Names,
             Connect(n) \/ Register(n) \/ StopServing(n) \/ Resume(n)
      PROVE  IInv'
  <2>1. UNCHANGED <<groups, told>> /\ clients \subseteq clients'
    BY <1>2 DEF Connect, Register, StopServing, Resume
  <2>2. TypeOK'
    BY <1>2 DEF Connect, Register, StopServing, Resume, groups, IInv, Inv, TypeOK
  <2>3. GroupsAgree' /\ InvitesOpen'
    BY <2>1 DEF groups, IInv, Inv, GroupsAgree, InvitesOpen, InGroup
  <2>4. InvitesNameLeader' /\ FreshIds'
    BY <2>1 DEF groups, IInv, Inv, InvitesNameLeader, FreshIds
  <2> QED BY <2>2, <2>3, <2>4 DEF IInv, Inv
<1>3. ASSUME NEW n \in Names, Create(n) \/ Leave(n) \/ Remove(n) PROVE IInv'
  BY <1>3, CreateInv, LeaveInv, RemoveInv
<1>4. ASSUME NEW n \in Names, NEW m \in Names, Invite(n, m) \/ Join(n, m)
      PROVE  IInv'
  BY <1>4, InviteInv, JoinInv
<1> QED BY <1>1, <1>2, <1>3, <1>4 DEF Next

\* In every reachable state the group tables agree, invitations are open and
\* name the present leader, for any number of players and groups.
THEOREM GroupsCorrect == Spec => []Inv
<1>1. IInv => Inv
  BY DEF IInv
<1> QED BY <1>1, InitInv, NextInv, PTL DEF Spec

\* The two tables agree, whoever creates, joins, leaves or disconnects.
THEOREM TablesAgree == Spec => []GroupsAgree
BY GroupsCorrect, PTL DEF Inv

\* No invitation outlives its group, its player's stay in the game, or the
\* player's joining of a group.
THEOREM InvitationsAreOpen == Spec => []InvitesOpen
BY GroupsCorrect, PTL DEF Inv

\* Whoever holds an invitation was told the name that GROUP JOIN asks for.
THEOREM InvitationsCanBeUsed == Spec => []InvitesNameLeader
BY GroupsCorrect, PTL DEF Inv

\* One step never makes a member of a player who was neither invited nor alone.
LEMMA JoinStep ==
    ASSUME IInv, [Next]_vars, NEW g \in GroupIds, NEW n \in Names,
           n \notin members[g], n \in members'[g]
    PROVE  \/ n \in invited[g] /\ leader'[g] = leader[g]
           \/ members'[g] = {n} /\ leader'[g] = n /\ nextId < g
<1> USE DEF IInv, Inv
<1>1. CASE \E m \in Names : Create(m)
  <2> PICK m \in Names : Create(m)
    BY <1>1
  <2>1. nextId + 1 \in GroupIds
    BY DEF TypeOK, Create
  <2> QED BY <2>1 DEF TypeOK, Create
<1>2. CASE \E m, l \in Names : Join(m, l)
  <2> PICK m \in Names, l \in Names : Join(m, l)
    BY <1>2
  <2>1. groupOf[l] \in GroupIds
    BY DEF TypeOK, Join, MayJoin, InGroup
  <2> QED BY <2>1 DEF TypeOK, Join, MayJoin
<1>3. CASE \E m \in Names : Leave(m) \/ Remove(m)
  <2> PICK m \in Names : Leave(m) \/ Remove(m)
    BY <1>3
  <2>1. RemoveMember(m)
    BY DEF Leave, Remove
  <2> QED BY <2>1, RemoveMemberFacts DEF TypeOK
<1>4. CASE UNCHANGED members
  BY <1>4
<1> QED BY <1>1, <1>2, <1>3, <1>4
        DEF Next, vars, groups, Connect, Register, StopServing, Resume, Invite

\* Nobody is put into a group: it takes the player's own CREATE, or its JOIN of
\* a group that invited it.
THEOREM JoinsOnlyByInvitation == Spec => JoinsByInvitation
<1>1. IInv /\ [Next]_vars =>
        [\A g \in GroupIds, n \in Names :
           n \notin members[g] /\ n \in members'[g] =>
               \/ n \in invited[g] /\ leader'[g] = leader[g]
               \/ members'[g] = {n} /\ leader'[g] = n /\ nextId < g]_vars
  BY JoinStep
<1> QED BY <1>1, InitInv, NextInv, PTL DEF Spec, JoinsByInvitation

\* One step changes a leader only by removing it.
LEMMA SuccessionStep ==
    ASSUME IInv, [Next]_vars, NEW g \in GroupIds,
           leader[g] # NoLeader, leader'[g] # leader[g]
    PROVE  /\ leader[g] \notin members'[g]
           /\ invited'[g] = {}
           /\ members'[g] = {} \/ \A m \in members'[g] : leader'[g] <= m
<1> USE DEF IInv, Inv
<1>1. CASE \E m \in Names : Create(m)
  <2> PICK m \in Names : Create(m)
    BY <1>1
  <2>1. leader[nextId + 1] = NoLeader
    BY DEF TypeOK, Create, FreshIds, GroupsAgree
  <2> QED BY <2>1 DEF TypeOK, Create
<1>2. CASE \E n \in Names : Leave(n) \/ Remove(n)
  <2> PICK n \in Names : Leave(n) \/ Remove(n)
    BY <1>2
  <2>1. RemoveMember(n) /\ (invited' = InvitedWithout(n)
                            \/ invited' = ClearInvites(InvitedWithout(n), n))
    BY DEF Leave, Remove
  <2>2. members'[g] = members[g] \ {n} /\ InvitedWithout(n)[g] = {}
    BY <2>1, RemoveMemberFacts
  <2>3. invited'[g] = {}
    BY <2>1, <2>2 DEF ClearInvites
  <2>4. InGroup(n) /\ groupOf[n] = g
    BY <2>1 DEF RemoveMember, NextLeader, TypeOK
  <2>5. NextLeader(n, g, members'[g])
    BY <2>1, <2>2, <2>4 DEF RemoveMember
  <2>6. members'[g] # {} => leader[g] = n
    BY <2>5 DEF NextLeader
  <2>7. members'[g] # {} => \A m \in members'[g] : leader'[g] <= m
    BY <2>5, <2>6 DEF NextLeader, Succeeds, TypeOK
  <2> QED BY <2>2, <2>3, <2>6, <2>7
<1>3. CASE UNCHANGED leader
  BY <1>3
<1> QED BY <1>1, <1>2, <1>3
        DEF Next, vars, groups, Connect, Register, StopServing, Resume, Invite, Join

\* Leadership passes on only when the leader leaves, and voids its invitations.
THEOREM LeadersSucceed == Spec => LeaderSucceeds
<1>1. IInv /\ [Next]_vars =>
        [\A g \in GroupIds :
          leader[g] # NoLeader /\ leader'[g] # leader[g] =>
              /\ leader[g] \notin members'[g]
              /\ invited'[g] = {}
              /\ \/ members'[g] = {}
                 \/ \A m \in members'[g] : leader'[g] <= m]_vars
  BY SuccessionStep
<1> QED BY <1>1, InitInv, NextInv, PTL DEF Spec, LeaderSucceeds

-------------------------------------------------------------------------------
(***************************************************************************)
(* What a client believes about its company is right for every set of      *)
(* players and rooms.  A step that moves one player tells the observer of  *)
(* exactly the rooms it leaves and enters; the rest is that only players   *)
(* who were announced can move.                                            *)
(***************************************************************************)

HeardOK ==
    /\ room \in [Names -> Rooms]
    /\ current \in BOOLEAN /\ roster \subseteq Names /\ mates \subseteq Names

CompanyInv == IInv /\ HeardOK /\ CompanyAgrees

HIDE NamesAssumption DEF NoLeader
USE RoomsAssumption

\* Every step is one of the group tables and sessions, or leaves them alone.
LEMMA StepOfGroups == PresenceNext => [Next]_vars
BY DEF PresenceNext, Next, Install, Announce, Stop, GoOn, Depart, Move, Respawn,
       GroupCreate, GroupLeave, GroupInvite, GroupJoin, Look, Who

\* The observer is nowhere at first.
LEMMA InitCompany == PresenceInit => CompanyInv
<1> SUFFICES ASSUME PresenceInit PROVE CompanyInv
  OBVIOUS
<1>1. IInv
  BY InitInv DEF PresenceInit
<1>2. HeardOK
  BY DEF PresenceInit, HeardOK
<1>3. CompanyAgrees
  BY DEF PresenceInit, Init, CompanyAgrees, RosterAgrees, MatesAgree, Watching
<1> QED BY <1>1, <1>2, <1>3 DEF CompanyInv

\* Coming: nobody is told of a player that is installed, those in the room are
\* told of one that is registered.
LEMMA ComesCompany ==
    ASSUME CompanyInv, NEW n \in Names, Install(n) \/ Announce(n)
    PROVE  HeardOK' /\ CompanyAgrees'
<1> USE DEF CompanyInv, HeardOK, IInv, Inv, TypeOK, Watching
<1>1. CASE Install(n)
  <2> USE <1>1 DEF Install, Connect, groups, heard
  <2>1. HeardOK'
    OBVIOUS
  <2>2. RosterAgrees'
    BY DEF CompanyAgrees, RosterAgrees
  <2>3. MatesAgree'
    BY DEF CompanyAgrees, MatesAgree, InGroup
  <2> QED BY <2>1, <2>2, <2>3 DEF CompanyAgrees
<1>2. CASE Announce(n)
  <2> USE <1>2 DEF Announce, Register, groups, Displaced, RosterBecomes
  <2>1. HeardOK'
    OBVIOUS
  <2>2. RosterAgrees'
    BY DEF CompanyAgrees, RosterAgrees
  <2>3. MatesAgree'
    BY DEF CompanyAgrees, MatesAgree, InGroup, GroupsAgree
  <2> QED BY <2>1, <2>2, <2>3 DEF CompanyAgrees
<1> QED BY <1>1, <1>2

\* Going: a player that is removed has left its room and its group, and those
\* who stay in them are told of both.
LEMMA DepartCompany ==
    ASSUME CompanyInv, NEW n \in Names, Depart(n)
    PROVE  HeardOK' /\ CompanyAgrees'
<1> USE DEF CompanyInv, HeardOK, IInv, Inv, TypeOK, Watching, Depart, Remove,
            ClientsWithout, Displaced, RosterBecomes, heard, Parted
<1>1. HeardOK'
  OBVIOUS
<1>2. RosterAgrees'
  BY ZenonT(60) DEF CompanyAgrees, RosterAgrees
<1>3. MatesAgree'
  <2>1. CASE n = Observer
    BY <2>1 DEF MatesAgree
  <2>2. CASE n # Observer
    BY <2>2 DEF CompanyAgrees, MatesAgree, InGroup, GroupsAgree, RemoveMember
  <2> QED BY <2>1, <2>2
<1> QED BY <1>1, <1>2, <1>3 DEF CompanyAgrees

\* The events of a player n who goes from one room to another keep a roster
\* right about n, and about everybody else.
LEMMA MovedFacts ==
    ASSUME NEW names, NEW n, NEW from, NEW to,
           n \in names <=> from = room[Observer]
    PROVE  /\ n \in Moved(names, n, from, to) <=> to = room[Observer]
           /\ \A m : m # n => (m \in Moved(names, n, from, to) <=> m \in names)
BY DEF Moved

\* Walking and dying: only players who were announced do.
LEMMA GoesCompany ==
    ASSUME CompanyInv, NEW n \in Names, n \in serving,
           NEW r \in Rooms, NEW end \in Rooms, Goes(n, room[n], r, end),
           UNCHANGED <<vars, total, mates>>
    PROVE  HeardOK' /\ CompanyAgrees'
<1> USE DEF CompanyInv, HeardOK, IInv, Inv, TypeOK, Watching, Goes, Displaced,
            RosterBecomes, vars, presence, groups
<1> DEFINE between == Moved(roster, n, room[n], r)
           after   == Moved(between, n, r, end)
<1>1. HeardOK'
  BY DEF Moved
<1>2. RosterAgrees'
  <2>1. CASE n = Observer
    BY <2>1 DEF CompanyAgrees, RosterAgrees
  <2>2. CASE n # Observer /\ Watching /\ current
    <3>1. n \in roster <=> room[n] = room[Observer]
      BY <2>2 DEF CompanyAgrees, RosterAgrees
    <3>2. /\ n \in between <=> r = room[Observer]
          /\ \A m : m # n => (m \in between <=> m \in roster)
      BY <3>1, MovedFacts
    <3>3. /\ n \in after <=> end = room[Observer]
          /\ \A m : m # n => (m \in after <=> m \in roster)
      <4> HIDE DEF between
      <4> QED BY <3>2, MovedFacts
    <3>4. roster' = after /\ room' = [room EXCEPT ![n] = end]
      BY <2>2
    <3> HIDE DEF after
    <3> QED BY <2>2, <3>3, <3>4 DEF CompanyAgrees, RosterAgrees
  <2>3. CASE n # Observer /\ ~(Watching /\ current)
    BY <2>3 DEF RosterAgrees
  <2> QED BY <2>1, <2>2, <2>3
<1>3. MatesAgree'
  BY DEF CompanyAgrees, MatesAgree, InGroup
<1> QED BY <1>1, <1>2, <1>3 DEF CompanyAgrees

\* Groups: those who are members are told of each who joins or leaves.
LEMMA GroupCompany ==
    ASSUME CompanyInv, NEW n \in Names, NEW m \in Names,
           GroupCreate(n) \/ GroupLeave(n) \/ GroupInvite(n, m) \/ GroupJoin(n, m)
    PROVE  HeardOK' /\ CompanyAgrees'
<1> USE DEF CompanyInv, HeardOK, IInv, Inv, TypeOK, Watching, presence, groups
<1>1. CASE GroupCreate(n)
  <2> USE <1>1 DEF GroupCreate, Create
  <2>1. HeardOK' /\ RosterAgrees'
    BY DEF CompanyAgrees, RosterAgrees
  <2>2. nextId + 1 \in GroupIds /\ members[nextId + 1] = {}
    BY DEF FreshIds
  <2>3. MatesAgree'
    <3>1. CASE n = Observer
      BY <2>2, <3>1 DEF MatesAgree, InGroup, GroupsAgree
    <3>2. CASE n # Observer
      BY <2>2, <3>2 DEF CompanyAgrees, MatesAgree, InGroup, GroupsAgree
    <3> QED BY <3>1, <3>2
  <2> QED BY <2>1, <2>3 DEF CompanyAgrees
<1>2. CASE GroupLeave(n)
  <2> USE <1>2 DEF GroupLeave, Leave, Parted
  <2>1. HeardOK' /\ RosterAgrees'
    BY DEF CompanyAgrees, RosterAgrees
  <2>2. MatesAgree'
    BY DEF CompanyAgrees, MatesAgree, InGroup, GroupsAgree, RemoveMember
  <2> QED BY <2>1, <2>2 DEF CompanyAgrees
<1>3. CASE GroupInvite(n, m)
  <2> USE <1>3 DEF GroupInvite, Invite, heard
  <2>1. HeardOK' /\ RosterAgrees'
    BY DEF CompanyAgrees, RosterAgrees
  <2>2. MatesAgree'
    BY DEF CompanyAgrees, MatesAgree, InGroup
  <2> QED BY <2>1, <2>2 DEF CompanyAgrees
<1>4. CASE GroupJoin(n, m)
  <2> USE <1>4 DEF GroupJoin, Join, MayJoin
  <2>1. HeardOK' /\ RosterAgrees'
    BY DEF CompanyAgrees, RosterAgrees
  <2>2. MatesAgree'
    BY DEF CompanyAgrees, MatesAgree, InGroup, GroupsAgree
  <2> QED BY <2>1, <2>2 DEF CompanyAgrees
<1> QED BY <1>1, <1>2, <1>3, <1>4

\* What remains changes no room, no group and nothing a client believes; but
\* that one who looks around believes what it sees.
LEMMA QuietCompany ==
    ASSUME CompanyInv,
           \/ Look \/ Who \/ UNCHANGED allVars
           \/ \E n \in Names : Stop(n) \/ GoOn(n)
    PROVE  HeardOK' /\ CompanyAgrees'
<1> USE DEF CompanyInv, HeardOK, IInv, Inv, TypeOK, Watching, Look, Who, allVars,
            Stop, GoOn, StopServing, Resume, vars, presence, groups, heard
<1>1. HeardOK'
  OBVIOUS
<1>2. RosterAgrees'
  BY DEF CompanyAgrees, RosterAgrees
<1>3. MatesAgree'
  BY DEF CompanyAgrees, MatesAgree, InGroup
<1> QED BY <1>1, <1>2, <1>3 DEF CompanyAgrees

\* The invariant is inductive.
LEMMA NextCompany == CompanyInv /\ [PresenceNext]_allVars => CompanyInv'
<1> SUFFICES ASSUME CompanyInv, [PresenceNext]_allVars PROVE CompanyInv'
  OBVIOUS
<1>1. IInv'
  BY StepOfGroups, NextInv DEF CompanyInv, allVars
<1>2. HeardOK' /\ CompanyAgrees'
  <2>1. ASSUME NEW n \in Names, Move(n) \/ Respawn(n)
        PROVE  HeardOK' /\ CompanyAgrees'
    <3>1. PICK r \in Rooms, end \in Rooms : Goes(n, room[n], r, end)
      BY <2>1 DEF Move, Respawn, CompanyInv, HeardOK
    <3> QED BY <2>1, <3>1, GoesCompany DEF Move, Respawn
  <2>2. ASSUME NEW n \in Names, Install(n) \/ Announce(n) \/ Depart(n)
        PROVE  HeardOK' /\ CompanyAgrees'
    BY <2>2, ComesCompany, DepartCompany
  <2>3. ASSUME NEW n \in Names, NEW m \in Names,
               GroupCreate(n) \/ GroupLeave(n) \/ GroupInvite(n, m) \/ GroupJoin(n, m)
        PROVE  HeardOK' /\ CompanyAgrees'
    BY <2>3, GroupCompany
  <2> QED BY <2>1, <2>2, <2>3, QuietCompany DEF PresenceNext
<1> QED BY <1>1, <1>2 DEF CompanyInv

\* For any players, rooms and groups: a client that keeps to its events knows
\* who is in its room, and believes nobody to be in its group who is not.
THEOREM CompanyIsKnown == PresenceSpec => []CompanyAgrees
<1>1. CompanyInv => CompanyAgrees
  BY DEF CompanyInv
<1> QED BY <1>1, InitCompany, NextCompany, PTL DEF PresenceSpec

\* There are never more registered players than players.
LEMMA CountFacts ==
    ASSUME NEW some, NEW all, IsFiniteSet(all), some \subseteq all
    PROVE  /\ IsFiniteSet(some)
           /\ Cardinality(some) \in Nat /\ Cardinality(all) \in Nat
           /\ Cardinality(all) \in Cardinality(some) .. Cardinality(all)
BY FS_Subset, FS_CardinalityType

TotalInv == IInv /\ IsFiniteSet(players) /\ TotalAgrees

\* Every step that changes the number of players, or lets the observer hear of
\* it, leaves the number it was told between the two.
LEMMA NextTotal ==
    TotalInv /\ [PresenceNext]_allVars => IsFiniteSet(players)' /\ TotalAgrees'
<1> SUFFICES ASSUME TotalInv, [PresenceNext]_allVars
             PROVE  IsFiniteSet(players') /\ TotalAgrees'
  OBVIOUS
<1> USE DEF TotalInv, Watching, Count
<1>1. IInv'
  BY StepOfGroups, NextInv DEF allVars
<1>2. clients \subseteq players /\ clients' \subseteq players'
  BY <1>1 DEF IInv, Inv, TypeOK
<1>3. ASSUME NEW n \in Names, Install(n) PROVE IsFiniteSet(players') /\ TotalAgrees'
  <2>1. /\ n \notin players /\ players' = players \cup {n}
        /\ UNCHANGED <<clients, total>>
    BY <1>3 DEF Install, Connect, heard
  <2>2. IsFiniteSet(players') /\ Cardinality(players') = Cardinality(players) + 1
    BY <2>1, FS_AddElement
  <2> QED BY <1>2, <2>1, <2>2, CountFacts DEF TotalAgrees
<1>4. ASSUME NEW n \in Names, Announce(n) \/ Depart(n)
      PROVE  IsFiniteSet(players') /\ TotalAgrees'
  <2>1. IsFiniteSet(players')
    BY <1>4, FS_Subset DEF Announce, Depart, Register, Remove
  <2>2. Watching' => total' = Cardinality(players')
    BY <1>4 DEF Announce, Depart, Register, Remove, ClientsWithout, heard
  <2> QED BY <1>2, <2>1, <2>2, CountFacts DEF TotalAgrees
<1>5. CASE UNCHANGED <<players, clients, total>>
  BY <1>5 DEF TotalAgrees
<1>6. CASE Who
  <2>1. /\ UNCHANGED <<players, clients>>
        /\ total' = Cardinality(players')
    BY <1>6 DEF Who, vars, presence
  <2> QED BY <1>2, <2>1, CountFacts DEF TotalAgrees
<1> QED
  BY <1>3, <1>4, <1>5, <1>6
     DEF PresenceNext, Stop, GoOn, StopServing, Resume, Move, Respawn, Look,
         GroupCreate, GroupInvite, GroupJoin, GroupLeave, Create, Invite, Join,
         Leave, vars, presence, groups, heard, allVars

\* For any players: the number a client was told last counts everybody who was
\* announced and nobody who is not there.
THEOREM TotalIsKnown == PresenceSpec => []TotalAgrees
<1>1. PresenceInit => TotalInv
  BY InitInv, FS_EmptySet
     DEF PresenceInit, Init, TotalInv, TotalAgrees, Watching
<1>2. TotalInv /\ [PresenceNext]_allVars => TotalInv'
  BY StepOfGroups, NextInv, NextTotal DEF TotalInv, allVars
<1>3. TotalInv => TotalAgrees
  BY DEF TotalInv
<1> QED BY <1>1, <1>2, <1>3, PTL DEF PresenceSpec

\* Sessions and groups behave here as they do in Groups.
THEOREM GroupsImplemented == PresenceSpec => Spec
<1>1. PresenceInit => Init
  BY DEF PresenceInit
<1>2. [PresenceNext]_allVars => [Next]_vars
  BY StepOfGroups DEF allVars
<1> QED BY <1>1, <1>2, PTL DEF PresenceSpec, Spec
===============================================================================
