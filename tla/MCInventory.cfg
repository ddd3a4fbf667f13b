SPECIFICATION InventorySpec
CONSTANTS
    None = None
    Registers <- MCRegisters
    Queries <- MCQueries
INVARIANTS
    ReadersAgree
    NewestIsVisible
    WordsDecideTheScope
