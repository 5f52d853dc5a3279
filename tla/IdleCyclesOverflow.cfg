SPECIFICATION Spec
CONSTANTS
    Longs <- MCLongs
    MaxPolls <- MCMaxPolls
INVARIANTS
    UnmountsNoSoonerThanAMinute
