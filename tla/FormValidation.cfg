\* Two fields, asked about at the server or not, in two kinds of containers.
SPECIFICATION FairSpec
CONSTANTS
  None = None
  WellFormed = {2}
  Fields <- NameAndMail
  Texts <- ShortTexts
  Accepted = {2}
  Forms <- ThreeForms
  Late = {"mail"}
  Replaces = {"name"}
\* The page has gone once the form is submitted.
CHECK_DEADLOCK FALSE
INVARIANTS
  TypeOK
  OnlyValidLeaves
  PendingInSync
  ErrorsAreWatched
  ShownAsChecked
PROPERTIES
  WaitingSubmitEnds
