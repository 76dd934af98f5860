\* One line of the dynamic state after the setup: what a line does depends
\* on the setup and on no other line.
SPECIFICATION NetworkSpec
CONSTANTS
    Networks <- Some
    Edited <- Variants
    Lines <- LinesTried
    Rates <- RatesTried
    MaxLines = 1
INVARIANT EntriesLeadToNextHop
INVARIANT GeneratedIsAccepted
\* The program stops after an exception, and no line need follow the setup.
CHECK_DEADLOCK FALSE
