SPECIFICATION Spec
CONSTANTS
  Printers = {p1, p2}
  Width = 3
  Height = 2
  Mapped = 7
  Tab = 2
  Letters = {"a"}
  MaxText = 6
SYMMETRY Interchangeable
INVARIANTS ScreenShowsEnd CursorComesBack
\* The text is bounded, and a fault stops the kernel.
CHECK_DEADLOCK FALSE
