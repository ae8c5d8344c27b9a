SPECIFICATION Spec
INVARIANT ModelIsShown
