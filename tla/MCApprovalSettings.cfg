SPECIFICATION Spec
CONSTANTS
  first = first
  second = second
  draft = draft
  edit = edit
  Suggestion = suggestion
  Requests <- MCTwo
  Texts <- MCTexts
  Draft = draft
  MaxChanges = 2
  MaxFaults = 1
  MaxExpiries = 1
SYMMETRY Interchangeable
CONSTRAINT FewTurns
CHECK_DEADLOCK FALSE
INVARIANTS
  NoSilentReply
  GrantedInItsTime
  DisclosedInItsTime
PROPERTY
  SendsOnce
