\* Three deliveries of a step that claims first and of one that admits first,
\* with room for one of them in memory.
SPECIFICATION Spec
CONSTANTS
    d1 = d1
    d2 = d2
    d3 = d3
    keypad = keypad
    dial = dial
    Deliveries = {d1, d2, d3}
    Steps = {keypad, dial}
    AdmitFirst = {dial}
    MaxEntries = 1
SYMMETRY Symmetry
INVARIANTS OneDecision LostAnswerAdmitsNobody ClaimsAreEarned NoStepIsLost RefusalIsFinal
CHECK_DEADLOCK FALSE
