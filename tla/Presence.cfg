SPECIFICATION PresenceSpec
CONSTANTS
    Names = {1, 2, 3}
    MaxGroups = 2
    Rooms = {hall, cave}
    StartRoom = hall
    Observer = 2
INVARIANTS GroupsAgree InvitesOpen InvitesNameLeader CompanyAgrees TotalAgrees
PROPERTIES JoinsByInvitation LeaderSucceeds
