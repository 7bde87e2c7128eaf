\* One source, two destinations, a public and a blocked host, three messages.
CONSTANTS
  Sources = {1}
  Roots = {"kb", "other"}
  DefaultRoot = "kb"
  Hosts = {"pub", "priv"}
  Blocked = {"priv"}
  MaxRedirects = 1
  FinalAttempt = 2
  MaxMessages = 3
  MaxDrafts = 2
  MaxEdits = 1
  MaxFaults = 1
SPECIFICATION Spec
CONSTRAINT FewAccidents
 
PROPERTY CompletedIsFinal
\* Messages are bounded: a behaviour may use them all up.
CHECK_DEADLOCK FALSE
