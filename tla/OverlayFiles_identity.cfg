CONSTANTS
  MainFile = "main"
  FolderFiles <- McFolder
  UnusableNames = {"8-10"}
  t1 = t1
  t2 = t2
  Tabs = {t1, t2}
  Mains <- McMains
  HandFiles <- McHandFiles
  Secrets <- McSecrets
  Edits <- McEdits
  SaveForms <- McSaveForms
  Bodies <- McBodies
  MaxChanges = 1
  MaxRequests = 3
SYMMETRY Symmetry
SPECIFICATION Spec
INVARIANT RestatedIdentityIsHarmless
CHECK_DEADLOCK FALSE
