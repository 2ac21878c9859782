SPECIFICATION Spec
INVARIANT ResourcesManaged
