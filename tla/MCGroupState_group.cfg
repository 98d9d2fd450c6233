CONSTANTS
    alice = alice
    bob = bob
    carol = carol
    i1 = i1
    i2 = i2
    general = general
    title = title
    photo = photo
    Accounts = {alice, bob, carol}
    Creator = alice
    Nobody = Nobody
    Invites = {i1, i2}
    NoInvite = NoInvite
    MaxUses = 2
    Lifetime = 0
    Limits <- Scenes
    Channels = {general}
    Titles = {title}
    Avatars = {photo}
    Empty = Empty
    Label = Label
    StateLimits <- StateScenes
SPECIFICATION FairGroupSpec
INVARIANTS RosterIsSound AvatarIsHeld
PROPERTIES NoResurrection MembersMeet StateSpreads
CHECK_DEADLOCK FALSE
