\* Two texts, so that Handles may overlap; two names and three rows, so that a
\* name can be used again by a row inserted later.
SPECIFICATION Spec
CONSTANTS
    Tasks = {t1, t2}
    Default = default
    Names = {default, work}
    MaxId = 3
    MaxResets = 1
    MaxMarks = 1
INVARIANTS ActiveExists OwnMarks RestartOnlyForgets ResetSticksWhenQuiet
    TextsKept InItsSession
SYMMETRY MCSymmetry
