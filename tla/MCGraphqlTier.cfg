SPECIFICATION FairSpec
CONSTANTS
    f1 = f1
    f2 = f2
    experience = experience
    skills = skills
    TopCard = top_card
    About = about_card
    Fetches <- MCFetches
    Sections <- MCSections
    Permits = 2
INVARIANTS
    TypeOK
    PermitsAccounted
    NothingSilentlyMissing
    SectionsDegrade
PROPERTIES
    EverythingSettles
