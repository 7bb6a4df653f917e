SPECIFICATION Spec
CONSTANTS
    Programs = {"lazy_initialization"}
    Rounds = 2
    Sushi = 3
    Enough = 1
    Transfers = 1
    Balance = 2
    Amounts = {1, 3}
    max_counter = 2
    Servings = 2
    Elements = 3
    LOCAL_SIZE = 4
    DotLength = 5
    Team = 3
    Length = 5
INVARIANTS
    OnlyOneTest
CHECK_DEADLOCK FALSE
