SPECIFICATION Spec
INVARIANT DownEndsService
