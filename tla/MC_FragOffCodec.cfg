CONSTANT LittleEndian = TRUE
SPECIFICATION Spec
\* After Encode nothing more happens to a field.
CHECK_DEADLOCK FALSE
INVARIANT FragOffMatchesReference
INVARIANT FragOffRoundTrip
