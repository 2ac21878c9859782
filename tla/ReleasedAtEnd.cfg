SPECIFICATION Spec
INVARIANT ReleasedAtEnd
