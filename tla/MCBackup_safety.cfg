SPECIFICATION Spec
CONSTANTS
  Proc = {p1, p2, p3}
  MaxSource = 3
SYMMETRY Symmetry
INVARIANTS SuccessfulBackupSurvives NeverTorn
PROPERTIES ReceiptMatchesTarget ImplementsVault
