SPECIFICATION Spec
CONSTANTS
  MaxText = 3
  MaxHeader = 3
  Mail <- Mails
INVARIANT VerifiesIffPlain
CHECK_DEADLOCK FALSE
