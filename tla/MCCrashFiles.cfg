\* Three processes; any of them may crash, exit, or die without a word.
CONSTANTS
  Proc = {1, 2, 3}
  MaxContexts = 1
  MaxEvents = 2
VIEW Alike
SPECIFICATION Spec
INVARIANTS Owned CrashesKept ReportedWithContext ReportedAgain
\* Nothing more happens once the bounds are spent.
CHECK_DEADLOCK FALSE
