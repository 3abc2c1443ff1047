\* Every listing of the menu, fed whole or for one architecture, in every
\* order of calls.  A call that threw ends the use of the object.
CONSTANTS
  Texts <- MCTexts
  Archs <- MCArchs
  FamilyOf <- MCFamilyOf
  NoArch = NoArch
  Filters <- MCFilters
SPECIFICATION Spec
INVARIANT ReuseNeverThrows
CHECK_DEADLOCK FALSE
