\* The window may be closed.
CHECK_DEADLOCK FALSE
SPECIFICATION OpderSpec
CONSTANTS
    r1 = r1
    r2 = r2
    p = p
    q = q
    UserSpecified = UserSpecified
    Urls <- MCUrls
    Listed <- MCUrls
    Texts <- MCTexts
    Offers <- MCOffers
    MaxShows = 3
    MaxEdits = 1
INVARIANTS OpderTypeOK StalledOnlyIfAway
PROPERTIES TableIsTheAnswer TimersSpareDownloads RequestsEnd
