SPECIFICATION PicturesSpec
CONSTANTS
  Null = Null
  d1 = d1
  p1 = p1
  p2 = p2
  t1 = t1
  t2 = t2
  Drafts = {d1}
  Listings = {p1, p2}
  Tabs = {t1, t2}
  Calls = {1, 2, 3}
  MaxImages = 2
  MaxMinted = 3
  MaxFaults = 1
  MaxChosen = 2
  MaxListed = 3
  Scenes <- AllScenes
INVARIANTS
  UploadedPicturesLoad
  StoredFilesAreAccountedFor
  AlbumsAreWholeUnlessRaced
CHECK_DEADLOCK FALSE
